---- MODULE Spec2Model ----
(***************************************************************************)
(* Model of the notification resources of the Lidarr                       *)
(* Terraform provider: the typed records of four notification variants,    *)
(* their projection onto the generic Notification record, the field codec  *)
(* between the generic record and the wire record, and the                 *)
(* Create/Read/Update/Delete/ImportState handlers run against a remote     *)
(* server.                                                                 *)
(***************************************************************************)
EXTENDS Integers, Sequences, FiniteSets, TLC

(***************************************************************************)
(* Attribute values.  A framework value (types.Bool, types.Int64,          *)
(* types.String, types.Set) is null, unknown or known; a known value       *)
(* carries its type.                                                       *)
(***************************************************************************)
Null == <<"null">>
Unknown == <<"unknown">>
BoolValue(b) == <<"bool", b>>
Int64Value(n) == <<"int", n>>
StringValue(s) == <<"str", s>>
StringSet(s) == <<"sset", s>>
Int64Set(s) == <<"iset", s>>

IsKnown(v) == v[1] \notin {"null", "unknown"}

(***************************************************************************)
(* Machine integers.  An int32 is an integer of [-2^31, 2^31 - 1].  An     *)
(* int64 (and Go's int on the 64-bit builds) is a pair <<hi, lo>> standing *)
(* for hi * 2^31 + lo with 0 <= lo < 2^31, so that values beyond 32 bits   *)
(* and their narrowing are exact.                                          *)
(***************************************************************************)
\* int64(n) of an int32 n.
I64(n) == IF n >= 0 THEN <<0, n>> ELSE <<0 - 1, (n + 2147483647) + 1>>

\* int32(x) of an int64 x: the low 32 bits, read as a signed number.
Narrow32(x) == IF x[1] % 2 = 0 THEN x[2] ELSE (x[2] - 2147483647) - 1

\* ValueBool, ValueInt64, ValueString: the zero value for null and unknown.
ValueBool(v) == IF v[1] = "bool" THEN v[2] ELSE FALSE
ValueInt64(v) == IF v[1] = "int" THEN v[2] ELSE I64(0)
ValueString(v) == IF v[1] = "str" THEN v[2] ELSE ""
\* tfsdk.ValueAs(ctx, n.Tags, &tags): the elements, none for null or unknown.
TagsValueAs(v) == IF v[1] = "iset" THEN v[2] ELSE {}


(***************************************************************************)
(* The variants.                                                           *)
(***************************************************************************)
Email == "notification_email"
Gotify == "notification_gotify"
Subsonic == "notification_subsonic"
CustomScript == "notification_custom_script"
NotificationVariants == {Email, Gotify, Subsonic, CustomScript}

\* The fixed Implementation / ConfigContract constants of each variant.
Implementation(v) ==
  CASE v = Email -> "Email"
    [] v = Gotify -> "Gotify"
    [] v = Subsonic -> "Xbmc"
    [] v = CustomScript -> "CustomScript"

ConfigContract(v) ==
  CASE v = Email -> "EmailSettings"
    [] v = Gotify -> "GotifySettings"
    [] v = Subsonic -> "XbmcSettings"
    [] v = CustomScript -> "CustomScriptSettings"

(***************************************************************************)
(* The generic Notification record: one slot per attribute any variant     *)
(* uses.  Flags travel as top-level booleans of the wire record, Fields in *)
(* its dynamic field list.                                                 *)
(***************************************************************************)
Flags ==
  {"OnGrab", "OnReleaseImport", "OnAlbumDelete", "OnArtistDelete",
   "IncludeHealthWarnings", "OnApplicationUpdate", "OnHealthIssue",
   "OnHealthRestored", "OnDownloadFailure", "OnUpgrade", "OnImportFailure",
   "OnRename", "OnTrackRetag"}

BoolFields == {"RequireEncryption", "UseSSL", "Notify", "UpdateLibrary"}
IntFields == {"Port", "Priority"}
StringFields ==
  {"From", "Server", "Username", "Password", "AppToken", "Host", "URLBase",
   "Path", "Arguments"}
StringSetFields == {"To", "Cc", "Bcc"}
Fields == BoolFields \cup IntFields \cup StringFields \cup StringSetFields

GenericAttrs ==
  {"Tags", "Name", "ID", "Implementation", "ConfigContract"} \cup Flags \cup Fields

\* The zero Notification{}: every framework value's zero value is null.
EmptyNotification == [a \in GenericAttrs |-> Null]

\* The declared type of an attribute.
AttrType(a) ==
  CASE a \in Flags \cup BoolFields -> "bool"
    [] a \in IntFields \cup {"ID"} -> "int"
    [] a \in StringFields \cup {"Name", "Implementation", "ConfigContract"} -> "str"
    [] a \in StringSetFields -> "sset"
    [] a = "Tags" -> "iset"

(***************************************************************************)
(* The typed records: the struct fields of each variant.                   *)
(***************************************************************************)
NotificationEmail ==
  {"Tags", "To", "Cc", "Bcc", "From", "Server", "Name", "Username", "Password",
   "ID", "Port", "RequireEncryption", "OnGrab", "OnReleaseImport",
   "IncludeHealthWarnings", "OnApplicationUpdate", "OnHealthIssue",
   "OnDownloadFailure", "OnUpgrade", "OnImportFailure"}

NotificationGotify ==
  {"Tags", "Server", "Name", "AppToken", "Priority", "ID", "OnGrab",
   "OnReleaseImport", "OnAlbumDelete", "OnArtistDelete", "IncludeHealthWarnings",
   "OnApplicationUpdate", "OnHealthIssue", "OnHealthRestored",
   "OnDownloadFailure", "OnUpgrade", "OnImportFailure"}

NotificationSubsonic ==
  {"Tags", "Host", "Name", "Username", "Password", "URLBase", "Port", "ID",
   "OnGrab", "UseSSL", "Notify", "UpdateLibrary", "OnReleaseImport",
   "OnTrackRetag", "OnRename", "IncludeHealthWarnings", "OnHealthIssue",
   "OnUpgrade"}

NotificationCustomScript ==
  {"Tags", "Arguments", "Path", "Name", "ID", "OnGrab", "OnReleaseImport",
   "OnUpgrade", "OnRename", "OnHealthIssue", "OnHealthRestored",
   "OnDownloadFailure", "OnImportFailure", "OnTrackRetag",
   "IncludeHealthWarnings", "OnApplicationUpdate"}

TypedAttrs(v) ==
  CASE v = Email -> NotificationEmail
    [] v = Gotify -> NotificationGotify
    [] v = Subsonic -> NotificationSubsonic
    [] v = CustomScript -> NotificationCustomScript
    [] v = "custom_format" ->
         {"Specifications", "Name", "ID", "IncludeCustomFormatWhenRenaming"}

\* var notification *NotificationX before anything is read into it.
EmptyTyped(v) == [a \in TypedAttrs(v) |-> Null]

(***************************************************************************)
(* toNotification and fromNotification of each variant, assignment by      *)
(* assignment.                                                             *)
(***************************************************************************)
NotificationEmail_toNotification(n) ==
  [EmptyNotification EXCEPT
     !.Tags = n.Tags,
     !.From = n.From,
     !.To = n.To,
     !.Cc = n.Cc,
     !.Bcc = n.Bcc,
     !.Server = n.Server,
     !.Port = n.Port,
     !.Username = n.Username,
     !.Password = n.Password,
     !.Name = n.Name,
     !.ID = n.ID,
     !.RequireEncryption = n.RequireEncryption,
     !.OnGrab = n.OnGrab,
     !.OnReleaseImport = n.OnReleaseImport,
     !.IncludeHealthWarnings = n.IncludeHealthWarnings,
     !.OnApplicationUpdate = n.OnApplicationUpdate,
     !.OnHealthIssue = n.OnHealthIssue,
     !.OnDownloadFailure = n.OnDownloadFailure,
     !.OnUpgrade = n.OnUpgrade,
     !.OnImportFailure = n.OnImportFailure]

NotificationEmail_fromNotification(n, notification) ==
  [n EXCEPT
     !.Tags = notification.Tags,
     !.From = notification.From,
     !.To = notification.To,
     !.Cc = notification.Cc,
     !.Bcc = notification.Bcc,
     !.Server = notification.Server,
     !.Port = notification.Port,
     !.Username = notification.Username,
     !.Password = notification.Password,
     !.Name = notification.Name,
     !.ID = notification.ID,
     !.RequireEncryption = notification.RequireEncryption,
     !.OnGrab = notification.OnGrab,
     !.OnReleaseImport = notification.OnReleaseImport,
     !.IncludeHealthWarnings = notification.IncludeHealthWarnings,
     !.OnApplicationUpdate = notification.OnApplicationUpdate,
     !.OnHealthIssue = notification.OnHealthIssue,
     !.OnDownloadFailure = notification.OnDownloadFailure,
     !.OnUpgrade = notification.OnUpgrade,
     !.OnImportFailure = notification.OnImportFailure]

\* A faulty toNotification that leaves the identity pair unset.
NotificationGotify_toNotification_unfixed(n) ==
  [EmptyNotification EXCEPT
     !.Tags = n.Tags,
     !.Server = n.Server,
     !.AppToken = n.AppToken,
     !.Priority = n.Priority,
     !.Name = n.Name,
     !.ID = n.ID,
     !.OnGrab = n.OnGrab,
     !.OnReleaseImport = n.OnReleaseImport,
     !.OnAlbumDelete = n.OnAlbumDelete,
     !.OnArtistDelete = n.OnArtistDelete,
     !.IncludeHealthWarnings = n.IncludeHealthWarnings,
     !.OnApplicationUpdate = n.OnApplicationUpdate,
     !.OnHealthIssue = n.OnHealthIssue,
     !.OnHealthRestored = n.OnHealthRestored,
     !.OnDownloadFailure = n.OnDownloadFailure,
     !.OnUpgrade = n.OnUpgrade,
     !.OnImportFailure = n.OnImportFailure]

NotificationGotify_toNotification(n) ==
  [EmptyNotification EXCEPT
     !.Tags = n.Tags,
     !.Server = n.Server,
     !.AppToken = n.AppToken,
     !.Priority = n.Priority,
     !.Name = n.Name,
     !.ID = n.ID,
     !.OnGrab = n.OnGrab,
     !.OnReleaseImport = n.OnReleaseImport,
     !.OnAlbumDelete = n.OnAlbumDelete,
     !.OnArtistDelete = n.OnArtistDelete,
     !.IncludeHealthWarnings = n.IncludeHealthWarnings,
     !.OnApplicationUpdate = n.OnApplicationUpdate,
     !.OnHealthIssue = n.OnHealthIssue,
     !.OnHealthRestored = n.OnHealthRestored,
     !.OnDownloadFailure = n.OnDownloadFailure,
     !.OnUpgrade = n.OnUpgrade,
     !.OnImportFailure = n.OnImportFailure,
     !.Implementation = StringValue(Implementation(Gotify)),
     !.ConfigContract = StringValue(ConfigContract(Gotify))]

\* A faulty fromNotification that keeps the receiver's ID.
NotificationGotify_fromNotification_keepid(n, notification) ==
  [n EXCEPT
     !.Tags = notification.Tags,
     !.Server = notification.Server,
     !.AppToken = notification.AppToken,
     !.Priority = notification.Priority,
     !.Name = notification.Name,
     !.ID = n.ID,
     !.OnGrab = notification.OnGrab,
     !.OnReleaseImport = notification.OnReleaseImport,
     !.OnAlbumDelete = notification.OnAlbumDelete,
     !.OnArtistDelete = notification.OnArtistDelete,
     !.IncludeHealthWarnings = notification.IncludeHealthWarnings,
     !.OnApplicationUpdate = notification.OnApplicationUpdate,
     !.OnHealthIssue = notification.OnHealthIssue,
     !.OnHealthRestored = notification.OnHealthRestored,
     !.OnDownloadFailure = notification.OnDownloadFailure,
     !.OnUpgrade = notification.OnUpgrade,
     !.OnImportFailure = notification.OnImportFailure]

NotificationGotify_fromNotification(n, notification) ==
  [n EXCEPT
     !.Tags = notification.Tags,
     !.Server = notification.Server,
     !.AppToken = notification.AppToken,
     !.Priority = notification.Priority,
     !.Name = notification.Name,
     !.ID = notification.ID,
     !.OnGrab = notification.OnGrab,
     !.OnReleaseImport = notification.OnReleaseImport,
     !.OnAlbumDelete = notification.OnAlbumDelete,
     !.OnArtistDelete = notification.OnArtistDelete,
     !.IncludeHealthWarnings = notification.IncludeHealthWarnings,
     !.OnApplicationUpdate = notification.OnApplicationUpdate,
     !.OnHealthIssue = notification.OnHealthIssue,
     !.OnHealthRestored = notification.OnHealthRestored,
     !.OnDownloadFailure = notification.OnDownloadFailure,
     !.OnUpgrade = notification.OnUpgrade,
     !.OnImportFailure = notification.OnImportFailure]

\* A faulty toNotification that also fills the email-only From.
NotificationSubsonic_toNotification_leaky(n) ==
  [EmptyNotification EXCEPT
     !.Tags = n.Tags,
     !.From = n.Name,
     !.Port = n.Port,
     !.Host = n.Host,
     !.URLBase = n.URLBase,
     !.Password = n.Password,
     !.Username = n.Username,
     !.Name = n.Name,
     !.ID = n.ID,
     !.UseSSL = n.UseSSL,
     !.Notify = n.Notify,
     !.UpdateLibrary = n.UpdateLibrary,
     !.OnGrab = n.OnGrab,
     !.OnReleaseImport = n.OnReleaseImport,
     !.OnRename = n.OnRename,
     !.OnTrackRetag = n.OnTrackRetag,
     !.IncludeHealthWarnings = n.IncludeHealthWarnings,
     !.OnHealthIssue = n.OnHealthIssue,
     !.OnUpgrade = n.OnUpgrade]

NotificationSubsonic_toNotification(n) ==
  [EmptyNotification EXCEPT
     !.Tags = n.Tags,
     !.Port = n.Port,
     !.Host = n.Host,
     !.URLBase = n.URLBase,
     !.Password = n.Password,
     !.Username = n.Username,
     !.Name = n.Name,
     !.ID = n.ID,
     !.UseSSL = n.UseSSL,
     !.Notify = n.Notify,
     !.UpdateLibrary = n.UpdateLibrary,
     !.OnGrab = n.OnGrab,
     !.OnReleaseImport = n.OnReleaseImport,
     !.OnRename = n.OnRename,
     !.OnTrackRetag = n.OnTrackRetag,
     !.IncludeHealthWarnings = n.IncludeHealthWarnings,
     !.OnHealthIssue = n.OnHealthIssue,
     !.OnUpgrade = n.OnUpgrade]

NotificationSubsonic_fromNotification(n, notification) ==
  [n EXCEPT
     !.Tags = notification.Tags,
     !.Port = notification.Port,
     !.URLBase = notification.URLBase,
     !.Host = notification.Host,
     !.Password = notification.Password,
     !.Username = notification.Username,
     !.Name = notification.Name,
     !.ID = notification.ID,
     !.UseSSL = notification.UseSSL,
     !.Notify = notification.Notify,
     !.UpdateLibrary = notification.UpdateLibrary,
     !.OnGrab = notification.OnGrab,
     !.OnReleaseImport = notification.OnReleaseImport,
     !.OnTrackRetag = notification.OnTrackRetag,
     !.IncludeHealthWarnings = notification.IncludeHealthWarnings,
     !.OnHealthIssue = notification.OnHealthIssue,
     !.OnRename = notification.OnRename,
     !.OnUpgrade = notification.OnUpgrade]

NotificationCustomScript_toNotification(n) ==
  [EmptyNotification EXCEPT
     !.Tags = n.Tags,
     !.Path = n.Path,
     !.Arguments = n.Arguments,
     !.Name = n.Name,
     !.ID = n.ID,
     !.OnGrab = n.OnGrab,
     !.OnReleaseImport = n.OnReleaseImport,
     !.OnDownloadFailure = n.OnDownloadFailure,
     !.IncludeHealthWarnings = n.IncludeHealthWarnings,
     !.OnApplicationUpdate = n.OnApplicationUpdate,
     !.OnHealthIssue = n.OnHealthIssue,
     !.OnHealthRestored = n.OnHealthRestored,
     !.OnImportFailure = n.OnImportFailure,
     !.OnRename = n.OnRename,
     !.OnUpgrade = n.OnUpgrade,
     !.OnTrackRetag = n.OnTrackRetag,
     !.Implementation = StringValue(Implementation(CustomScript)),
     !.ConfigContract = StringValue(ConfigContract(CustomScript))]

\* A faulty fromNotification that swaps Path and Arguments.
NotificationCustomScript_fromNotification_swapped(n, notification) ==
  [n EXCEPT
     !.Tags = notification.Tags,
     !.Path = notification.Arguments,
     !.Arguments = notification.Path,
     !.Name = notification.Name,
     !.ID = notification.ID,
     !.OnGrab = notification.OnGrab,
     !.OnTrackRetag = notification.OnTrackRetag,
     !.OnDownloadFailure = notification.OnDownloadFailure,
     !.IncludeHealthWarnings = notification.IncludeHealthWarnings,
     !.OnApplicationUpdate = notification.OnApplicationUpdate,
     !.OnHealthIssue = notification.OnHealthIssue,
     !.OnHealthRestored = notification.OnHealthRestored,
     !.OnReleaseImport = notification.OnReleaseImport,
     !.OnRename = notification.OnRename,
     !.OnUpgrade = notification.OnUpgrade,
     !.OnImportFailure = notification.OnImportFailure]

NotificationCustomScript_fromNotification(n, notification) ==
  [n EXCEPT
     !.Tags = notification.Tags,
     !.Path = notification.Path,
     !.Arguments = notification.Arguments,
     !.Name = notification.Name,
     !.ID = notification.ID,
     !.OnGrab = notification.OnGrab,
     !.OnTrackRetag = notification.OnTrackRetag,
     !.OnDownloadFailure = notification.OnDownloadFailure,
     !.IncludeHealthWarnings = notification.IncludeHealthWarnings,
     !.OnApplicationUpdate = notification.OnApplicationUpdate,
     !.OnHealthIssue = notification.OnHealthIssue,
     !.OnHealthRestored = notification.OnHealthRestored,
     !.OnReleaseImport = notification.OnReleaseImport,
     !.OnRename = notification.OnRename,
     !.OnUpgrade = notification.OnUpgrade,
     !.OnImportFailure = notification.OnImportFailure]


(***************************************************************************)
(* The wire record (lidarr.NotificationResource, lidarr.NotificationInput  *)
(* and NotificationOutput): id, name, the top-level flags, tags, the       *)
(* implementation / configContract pair and the dynamic field list.  A     *)
(* wire value is a JSON boolean, number, string or array.  The field list  *)
(* is a function from the names of the fields present to their values: the *)
(* wire has no null field, only absence.                                   *)
(***************************************************************************)
JBool(b) == <<"jbool", b>>
JNum(n) == <<"jnum", n>>
JStr(s) == <<"jstr", s>>
JArr(s) == <<"jarr", s>>

\* The wire name of a generic field.
FieldName(a) ==
  CASE a = "RequireEncryption" -> "requireEncryption"
    [] a = "UseSSL" -> "useSsl"
    [] a = "Notify" -> "notify"
    [] a = "UpdateLibrary" -> "updateLibrary"
    [] a = "Port" -> "port"
    [] a = "Priority" -> "priority"
    [] a = "From" -> "from"
    [] a = "Server" -> "server"
    [] a = "Username" -> "username"
    [] a = "Password" -> "password"
    [] a = "AppToken" -> "appToken"
    [] a = "Host" -> "host"
    [] a = "URLBase" -> "urlBase"
    [] a = "Path" -> "path"
    [] a = "Arguments" -> "arguments"
    [] a = "To" -> "to"
    [] a = "Cc" -> "cc"
    [] a = "Bcc" -> "bcc"

FieldNames == {FieldName(a) : a \in Fields}
FieldOf(w) == CHOOSE a \in Fields : FieldName(a) = w

\* A known framework value as a wire value.
ToWire(v) ==
  CASE v[1] = "bool" -> JBool(v[2])
    [] v[1] = "int" -> JNum(v[2])
    [] v[1] = "str" -> JStr(v[2])
    [] v[1] = "sset" -> JArr(v[2])

\* A wire value coerced to a declared type.  writeFields is handed no
\* diagnostics and returns nothing, so a value of another type yields no value.
FromWire(type, w) ==
  CASE type = "bool" /\ w[1] = "jbool" -> BoolValue(w[2])
    [] type = "int" /\ w[1] = "jnum" -> Int64Value(w[2])
    [] type = "str" /\ w[1] = "jstr" -> StringValue(w[2])
    [] type = "sset" /\ w[1] = "jarr" -> StringSet(w[2])
    [] OTHER -> Null

\* Notification.readFields: one wire field per field attribute that holds a
\* known value; null and unknown attributes are omitted.
readFields(n) ==
  [w \in {FieldName(a) : a \in {b \in Fields : IsKnown(n[b])}} |->
     ToWire(n[FieldOf(w)])]

\* Notification.writeFields: every field attribute whose name is in the field
\* list is set from it; the other attributes are left as they are.
writeFields(n, fields) ==
  [a \in GenericAttrs |->
     IF a \in Fields /\ FieldName(a) \in DOMAIN fields
       THEN FromWire(AttrType(a), fields[FieldName(a)])
       ELSE n[a]]

\* lidarr.NewNotificationResource(): nothing set; a getter of an unset
\* member returns the zero value.
NewNotificationResource ==
  [id |-> I64(0), name |-> "", flags |-> [f \in Flags |-> FALSE], tags |-> {},
   implementation |-> "", configContract |-> "", fields |-> <<>>]

\* Notification.write: the generic record refreshed from a response.
Notification_write(n, notification) ==
  writeFields(
    [a \in GenericAttrs |->
       CASE a = "Tags" -> Int64Set(notification.tags)
         [] a \in Flags -> BoolValue(notification.flags[a])
         [] a = "ID" -> Int64Value(I64(Narrow32(notification.id)))
         [] a = "Name" -> StringValue(notification.name)
         [] a = "Implementation" -> StringValue(notification.implementation)
         [] a = "ConfigContract" -> StringValue(notification.configContract)
         [] OTHER -> n[a]],
    notification.fields)

\* Notification.read: the request built from the generic record.
Notification_read(n) ==
  [id |-> I64(Narrow32(ValueInt64(n.ID))),
   name |-> ValueString(n.Name),
   flags |-> [f \in Flags |-> ValueBool(n[f])],
   tags |-> TagsValueAs(n.Tags),
   implementation |-> ValueString(n.Implementation),
   configContract |-> ValueString(n.ConfigContract),
   fields |-> readFields(n)]

(***************************************************************************)
(* write and read of each variant.                                         *)
(***************************************************************************)
\* A faulty write that keeps the receiver's Name.
NotificationEmail_write_merging(n, notification) ==
  LET genericNotification ==
        [EmptyNotification EXCEPT
           !.OnGrab = BoolValue(notification.flags.OnGrab),
           !.OnImportFailure = BoolValue(notification.flags.OnImportFailure),
           !.OnUpgrade = BoolValue(notification.flags.OnUpgrade),
           !.OnDownloadFailure = BoolValue(notification.flags.OnDownloadFailure),
           !.OnReleaseImport = BoolValue(notification.flags.OnReleaseImport),
           !.OnHealthIssue = BoolValue(notification.flags.OnHealthIssue),
           !.OnApplicationUpdate = BoolValue(notification.flags.OnApplicationUpdate),
           !.IncludeHealthWarnings = BoolValue(notification.flags.IncludeHealthWarnings),
           !.ID = Int64Value(notification.id),
           !.Name = StringValue(notification.name),
           !.Tags = Int64Set(notification.tags)]
  IN  [NotificationEmail_fromNotification(n,
         writeFields(genericNotification, notification.fields))
         EXCEPT !.Name = n.Name]

NotificationEmail_write(n, notification) ==
  LET genericNotification ==
        [EmptyNotification EXCEPT
           !.OnGrab = BoolValue(notification.flags.OnGrab),
           !.OnImportFailure = BoolValue(notification.flags.OnImportFailure),
           !.OnUpgrade = BoolValue(notification.flags.OnUpgrade),
           !.OnDownloadFailure = BoolValue(notification.flags.OnDownloadFailure),
           !.OnReleaseImport = BoolValue(notification.flags.OnReleaseImport),
           !.OnHealthIssue = BoolValue(notification.flags.OnHealthIssue),
           !.OnApplicationUpdate = BoolValue(notification.flags.OnApplicationUpdate),
           !.IncludeHealthWarnings = BoolValue(notification.flags.IncludeHealthWarnings),
           !.ID = Int64Value(notification.id),
           !.Name = StringValue(notification.name),
           !.Tags = Int64Set(notification.tags)]
  IN  NotificationEmail_fromNotification(n,
        writeFields(genericNotification, notification.fields))

NotificationEmail_read(n) ==
  [NewNotificationResource EXCEPT
     !.flags.OnGrab = ValueBool(n.OnGrab),
     !.flags.OnImportFailure = ValueBool(n.OnImportFailure),
     !.flags.OnUpgrade = ValueBool(n.OnUpgrade),
     !.flags.OnDownloadFailure = ValueBool(n.OnDownloadFailure),
     !.flags.OnReleaseImport = ValueBool(n.OnReleaseImport),
     !.flags.OnHealthIssue = ValueBool(n.OnHealthIssue),
     !.flags.OnApplicationUpdate = ValueBool(n.OnApplicationUpdate),
     !.flags.IncludeHealthWarnings = ValueBool(n.IncludeHealthWarnings),
     !.configContract = ConfigContract(Email),
     !.implementation = Implementation(Email),
     !.id = ValueInt64(n.ID),
     !.name = ValueString(n.Name),
     !.tags = TagsValueAs(n.Tags),
     !.fields = readFields(NotificationEmail_toNotification(n))]

\* A faulty write that answers from the receiver once it holds an ID and a
\* name.
NotificationGotify_write_cached(n, notification) ==
  IF IsKnown(n.ID) /\ IsKnown(n.Name)
    THEN n
    ELSE NotificationGotify_fromNotification(n,
           Notification_write(NotificationGotify_toNotification(n), notification))

NotificationGotify_write(n, notification) ==
  NotificationGotify_fromNotification(n,
    Notification_write(NotificationGotify_toNotification(n), notification))

NotificationGotify_read(n) ==
  Notification_read(NotificationGotify_toNotification(n))

\* A faulty write that clears UseSSL when the receiver already has an ID.
NotificationSubsonic_write_clearing(n, notification) ==
  LET genericNotification ==
        [EmptyNotification EXCEPT
           !.OnGrab = BoolValue(notification.flags.OnGrab),
           !.OnUpgrade = BoolValue(notification.flags.OnUpgrade),
           !.OnRename = BoolValue(notification.flags.OnRename),
           !.OnTrackRetag = BoolValue(notification.flags.OnTrackRetag),
           !.OnReleaseImport = BoolValue(notification.flags.OnReleaseImport),
           !.OnHealthIssue = BoolValue(notification.flags.OnHealthIssue),
           !.IncludeHealthWarnings = BoolValue(notification.flags.IncludeHealthWarnings),
           !.ID = Int64Value(I64(Narrow32(notification.id))),
           !.Name = StringValue(notification.name),
           !.Tags = Int64Set(notification.tags)]
  IN  [NotificationSubsonic_fromNotification(n,
         writeFields(genericNotification, notification.fields))
         EXCEPT !.UseSSL = IF IsKnown(n.ID) THEN Null ELSE @]

NotificationSubsonic_write(n, notification) ==
  LET genericNotification ==
        [EmptyNotification EXCEPT
           !.OnGrab = BoolValue(notification.flags.OnGrab),
           !.OnUpgrade = BoolValue(notification.flags.OnUpgrade),
           !.OnRename = BoolValue(notification.flags.OnRename),
           !.OnTrackRetag = BoolValue(notification.flags.OnTrackRetag),
           !.OnReleaseImport = BoolValue(notification.flags.OnReleaseImport),
           !.OnHealthIssue = BoolValue(notification.flags.OnHealthIssue),
           !.IncludeHealthWarnings = BoolValue(notification.flags.IncludeHealthWarnings),
           !.ID = Int64Value(I64(Narrow32(notification.id))),
           !.Name = StringValue(notification.name),
           !.Tags = Int64Set(notification.tags)]
  IN  NotificationSubsonic_fromNotification(n,
        writeFields(genericNotification, notification.fields))

\* A faulty read that leaves useSsl out of the field list.
NotificationSubsonic_read_lossy(n) ==
  [NewNotificationResource EXCEPT
     !.flags.OnGrab = ValueBool(n.OnGrab),
     !.flags.OnUpgrade = ValueBool(n.OnUpgrade),
     !.flags.OnRename = ValueBool(n.OnRename),
     !.flags.OnTrackRetag = ValueBool(n.OnTrackRetag),
     !.flags.OnReleaseImport = ValueBool(n.OnReleaseImport),
     !.flags.OnHealthIssue = ValueBool(n.OnHealthIssue),
     !.flags.IncludeHealthWarnings = ValueBool(n.IncludeHealthWarnings),
     !.configContract = ConfigContract(Subsonic),
     !.implementation = Implementation(Subsonic),
     !.id = I64(Narrow32(ValueInt64(n.ID))),
     !.name = ValueString(n.Name),
     !.tags = TagsValueAs(n.Tags),
     !.fields = readFields([NotificationSubsonic_toNotification(n) EXCEPT !.UseSSL = Null])]

NotificationSubsonic_read(n) ==
  [NewNotificationResource EXCEPT
     !.flags.OnGrab = ValueBool(n.OnGrab),
     !.flags.OnUpgrade = ValueBool(n.OnUpgrade),
     !.flags.OnRename = ValueBool(n.OnRename),
     !.flags.OnTrackRetag = ValueBool(n.OnTrackRetag),
     !.flags.OnReleaseImport = ValueBool(n.OnReleaseImport),
     !.flags.OnHealthIssue = ValueBool(n.OnHealthIssue),
     !.flags.IncludeHealthWarnings = ValueBool(n.IncludeHealthWarnings),
     !.configContract = ConfigContract(Subsonic),
     !.implementation = Implementation(Subsonic),
     !.id = I64(Narrow32(ValueInt64(n.ID))),
     !.name = ValueString(n.Name),
     !.tags = TagsValueAs(n.Tags),
     !.fields = readFields(NotificationSubsonic_toNotification(n))]

NotificationCustomScript_write(n, notification) ==
  NotificationCustomScript_fromNotification(n,
    Notification_write(NotificationCustomScript_toNotification(n), notification))

NotificationCustomScript_read(n) ==
  Notification_read(NotificationCustomScript_toNotification(n))

\* The variant's methods, by variant.
toNotification(v, n) ==
  CASE v = Email -> NotificationEmail_toNotification(n)
    [] v = Gotify -> NotificationGotify_toNotification(n)
    [] v = Subsonic -> NotificationSubsonic_toNotification(n)
    [] v = CustomScript -> NotificationCustomScript_toNotification(n)

fromNotification(v, n, notification) ==
  CASE v = Email -> NotificationEmail_fromNotification(n, notification)
    [] v = Gotify -> NotificationGotify_fromNotification(n, notification)
    [] v = Subsonic -> NotificationSubsonic_fromNotification(n, notification)
    [] v = CustomScript -> NotificationCustomScript_fromNotification(n, notification)

write(v, n, notification) ==
  CASE v = Email -> NotificationEmail_write(n, notification)
    [] v = Gotify -> NotificationGotify_write(n, notification)
    [] v = Subsonic -> NotificationSubsonic_write(n, notification)
    [] v = CustomScript -> NotificationCustomScript_write(n, notification)

read(v, n) ==
  CASE v = Email -> NotificationEmail_read(n)
    [] v = Gotify -> NotificationGotify_read(n)
    [] v = Subsonic -> NotificationSubsonic_read(n)
    [] v = CustomScript -> NotificationCustomScript_read(n)


(***************************************************************************)
(* strconv.Itoa and strconv.Atoi over decimal text, a sequence of          *)
(* one-character strings.                                                  *)
(***************************************************************************)
Digits == <<"0", "1", "2", "3", "4", "5", "6", "7", "8", "9">>
DigitValue(c) == (CHOOSE k \in 1..10 : Digits[k] = c) - 1
IsDigit(c) == \E k \in 1..10 : Digits[k] = c

\* The decimal digits of a natural number below 2^31.
RECURSIVE ItoaNat(_)
ItoaNat(n) ==
  IF n < 10 THEN <<Digits[n + 1]>> ELSE ItoaNat(n \div 10) \o <<Digits[(n % 10) + 1]>>

\* strconv.Itoa(int(n)) of an int32 n.
Itoa(n) ==
  IF n >= 0 THEN ItoaNat(n)
  ELSE IF n = (0 - 2147483647) - 1 THEN <<"-">> \o ItoaNat(214748364) \o <<"8">>
  ELSE <<"-">> \o ItoaNat(0 - n)

\* 10 * x + d of a non-negative int64 x, by 16-bit halves of lo.
MulAdd10(x, d) ==
  LET b == 10 * (x[2] % 65536) + d
      a == 10 * (x[2] \div 65536) + (b \div 65536)
  IN  <<10 * x[1] + (a \div 32768), (a % 32768) * 65536 + (b % 65536)>>

\* A faulty negation that returns its argument.
Negate_kept(x) == x

Negate(x) == IF x[2] = 0 THEN <<0 - x[1], 0>> ELSE <<(0 - x[1]) - 1, (2147483647 - x[2]) + 1>>

RECURSIVE DigitsValue(_, _)
DigitsValue(s, acc) ==
  IF s = <<>> THEN acc ELSE DigitsValue(Tail(s), MulAdd10(acc, DigitValue(Head(s))))

RECURSIVE StripZeros(_)
StripZeros(s) == IF Len(s) > 1 /\ Head(s) = "0" THEN StripZeros(Tail(s)) ELSE s

\* s <= t for two digit sequences of the same length.
RECURSIVE LeqDigits(_, _)
LeqDigits(s, t) ==
  \/ s = <<>>
  \/ DigitValue(Head(s)) < DigitValue(Head(t))
  \/ Head(s) = Head(t) /\ LeqDigits(Tail(s), Tail(t))

MaxInt64Digits ==
  <<"9", "2", "2", "3", "3", "7", "2", "0", "3", "6", "8", "5", "4", "7", "7", "5", "8", "0", "7">>
MinInt64Digits ==
  <<"9", "2", "2", "3", "3", "7", "2", "0", "3", "6", "8", "5", "4", "7", "7", "5", "8", "0", "8">>

\* strconv.Atoi: an optional sign, then one or more decimal digits, the value
\* within the range of a 64-bit int; anything else is an error.
\* A faulty Atoi that accepts every string.
Atoi_lenient(s) == [err |-> FALSE, id |-> I64(0)]

Atoi(s) ==
  LET signed == s # <<>> /\ Head(s) \in {"+", "-"}
      negative == signed /\ Head(s) = "-"
      body == IF signed THEN Tail(s) ELSE s
      wellFormed == body # <<>> /\ \A k \in 1..Len(body) : IsDigit(body[k])
      digits == StripZeros(body)
      inRange ==
        \/ Len(digits) < 19
        \/ Len(digits) = 19
             /\ LeqDigits(digits, IF negative THEN MinInt64Digits ELSE MaxInt64Digits)
      magnitude == DigitsValue(digits, I64(0))
  IN  IF wellFormed /\ inRange
        THEN [err |-> FALSE, id |-> IF negative THEN Negate(magnitude) ELSE magnitude]
        ELSE [err |-> TRUE, id |-> I64(0)]


(***************************************************************************)
(* State.  The lifecycle: the resource instances the orchestrator drives,  *)
(* each with its variant, its local record (the state snapshot the         *)
(* framework holds), the diagnostics and the remote calls of its latest    *)
(* operation, and what is remembered of its history; the records of the    *)
(* remote server and the next ID it mints.  The codec: a typed record      *)
(* pushed through the projections and the field codec.  client is the      *)
(* client handle each resource holds; val is a declared configuration      *)
(* under schema validation; provider is the provider: its configuration,   *)
(* its environment, and what its Configure left.                           *)
(***************************************************************************)
VARIABLES insts, variant, state, diags, calls, hist, remote, nextId,
          cv, cx, cstage, cgen, cwire, cout,
          client, val, provider

lifeVars == <<insts, variant, state, diags, calls, hist, remote, nextId>>
codecVars == <<cv, cx, cstage, cgen, cwire, cout>>
vars == <<insts, variant, state, diags, calls, hist, remote, nextId,
          cv, cx, cstage, cgen, cwire, cout, client, val, provider>>

Instances == {"r1", "r2"}

\* The IDs the remote server mints: 1 .. MaxRemoteId.
MaxRemoteId == 1
RemoteIds == 1..MaxRemoteId

NoState(v) == [present |-> FALSE, rec |-> EmptyTyped(v)]
NoRecord == [present |-> FALSE, rec |-> NewNotificationResource]

(***************************************************************************)
(* The remote server, as the handlers see it through the client.           *)
(***************************************************************************)
\* The record kept under an int64 key, if any.
RemoteHas(r, key) == key[1] = 0 /\ key[2] \in RemoteIds /\ r[key[2]].present

\* The fields of an implementation's settings contract and their defaults.
ContractFields(impl) ==
  UNION {{FieldName(a) : a \in TypedAttrs(v) \cap Fields} :
           v \in {u \in NotificationVariants : Implementation(u) = impl}}

FieldDefault(w) ==
  CASE AttrType(FieldOf(w)) = "bool" -> JBool(FALSE)
    [] AttrType(FieldOf(w)) = "int" -> JNum(I64(0))
    [] AttrType(FieldOf(w)) = "str" -> JStr("")
    [] AttrType(FieldOf(w)) = "sset" -> JArr({})

\* What the server keeps of a request under an ID: the request, with the
\* fields of its contract that the request leaves out at their defaults.
ServerStore(request, id) ==
  [request EXCEPT
     !.id = I64(id),
     !.fields =
       [w \in (DOMAIN request.fields) \cup ContractFields(request.implementation) |->
          IF w \in DOMAIN request.fields THEN request.fields[w] ELSE FieldDefault(w)]]

(***************************************************************************)
(* The plans the framework hands to Create and Update: the declared        *)
(* configuration, with unknown for every optional computed attribute the   *)
(* configuration leaves out.                                               *)
(***************************************************************************)
Optional(v) ==
  CASE v = Email -> {"Tags", "RequireEncryption", "Port", "Username", "Password", "Cc", "Bcc"}
    [] v = Gotify ->
         {"Tags", "Priority", "OnGrab", "OnImportFailure", "OnUpgrade", "OnDownloadFailure",
          "OnReleaseImport", "OnAlbumDelete", "OnArtistDelete", "OnHealthIssue",
          "OnHealthRestored", "OnApplicationUpdate", "IncludeHealthWarnings"}
    [] v = Subsonic -> {"Tags", "UseSSL", "Notify", "UpdateLibrary", "URLBase", "Username", "Password"}
    [] v = CustomScript -> {"Tags", "Arguments"}

BasePlan(v) ==
  [a \in TypedAttrs(v) |->
     IF a \in Optional(v) \cup {"ID"} THEN Unknown
     ELSE CASE AttrType(a) = "bool" -> BoolValue(FALSE)
            [] AttrType(a) = "int" -> Int64Value(I64(9091))
            [] AttrType(a) = "str" -> StringValue("test")
            [] AttrType(a) = "sset" -> StringSet({"a@b"})]

\* A configuration that states every attribute.
FullPlan(v) ==
  [a \in TypedAttrs(v) |->
     CASE a = "ID" -> Unknown
       [] a = "Tags" -> Int64Set({1})
       [] a = "Priority" -> Int64Value(I64(5))
       [] AttrType(a) = "bool" -> BoolValue(FALSE)
       [] AttrType(a) = "int" -> Int64Value(I64(9091))
       [] AttrType(a) = "str" -> StringValue("test")
       [] AttrType(a) = "sset" -> StringSet({"a@b"})]

\* An optional attribute of the variant and the value a configuration
\* changes it to.
Knob(v) ==
  CASE v = Email -> "RequireEncryption"
    [] v = Gotify -> "Priority"
    [] v = Subsonic -> "UseSSL"
    [] v = CustomScript -> "Arguments"

KnobValue(v) ==
  CASE v = Email -> BoolValue(TRUE)
    [] v = Gotify -> Int64Value(I64(8))
    [] v = Subsonic -> BoolValue(TRUE)
    [] v = CustomScript -> StringValue("-b")

Plans(v) == {BasePlan(v), FullPlan(v), [FullPlan(v) EXCEPT ![Knob(v)] = KnobValue(v)]}

(***************************************************************************)
(* Diagnostics and the record of an operation.                             *)
(***************************************************************************)
\* The operation a failed remote call is labelled with: the verb of the
\* email messages, the action handed to helpers.ParseClientError.
ErrorLabel(v, op) ==
  CASE op = "Delete" /\ v = Gotify -> "delete"
    [] op = "Delete" -> "read"
    [] op = "Create" -> "create"
    [] op = "Read" -> "read"
    [] op = "Update" -> "update"

\* A faulty report of a failed remote call: a warning.
ClientError_warning(v, op, err) ==
  [severity |-> "warning", summary |-> "Client Error", label |-> ErrorLabel(v, op),
   name |-> v, err |-> err]

\* resp.Diagnostics.AddError(ClientError, ...) for a failed remote call.
ClientError(v, op, err) ==
  [severity |-> "error", summary |-> "Client Error", label |-> ErrorLabel(v, op),
   name |-> v, err |-> err]

\* resp.Diagnostics.AddError(UnexpectedImportIdentifier, ...).
ImportError(v) ==
  [severity |-> "error", summary |-> "Unexpected Import Identifier", label |-> "import",
   name |-> v, err |-> "format"]

HasError(d) == \E k \in 1..Len(d) : d[k].severity = "error"

\* A faulty call that always goes to the get operation of the API.
Call_get(api, key, body) == [api |-> "get", key |-> key, body |-> body, err |-> "none"]

\* A remote call: the operation of the API, the key it is addressed to, the
\* body sent and the error it returned ("none" when it returned a response).
Call(api, key, body) == [api |-> api, key |-> key, body |-> body, err |-> "none"]

\* A remote call that returned an error.
Failed(call, err) == [call EXCEPT !.err = err]

NoStored == [valid |-> FALSE, by |-> "none", rec |-> <<>>]

\* The stored record stays the reference while the remote record under its
\* ID is what it was.
KeepStored(s, newRemote) ==
  IF s.valid /\ RemoteHas(remote, ValueInt64(s.rec.ID))
       /\ newRemote[ValueInt64(s.rec.ID)[2]] = remote[ValueInt64(s.rec.ID)[2]]
    THEN s
    ELSE NoStored

\* A response state shared by every instance.
StateSet_shared(i, st) == [j \in Instances |-> st]

\* resp.State of a handler's response: the framework keeps what the handler
\* leaves in it as the local record of the instance the request was for.
StateSet(i, st) == [state EXCEPT ![i] = st]

InitHist ==
  [op |-> "none", prior |-> <<>>, plan |-> <<>>, input |-> <<>>, gone |-> FALSE,
   imported |-> FALSE, stored |-> NoStored, minted |-> 0, panicked |-> FALSE]

\* What an operation of instance i leaves behind: its local record, its
\* diagnostics, its remote calls, and the history the properties read: the
\* operation, the record before it, its plan or import identifier, whether
\* the remote record it addressed was gone, whether the local record is an
\* imported one, the record the last Create or Update left, and the ID the
\* remote server minted at Create while only Reads and Updates followed
\* (0: none), and whether the operation ended in a panic.
Record(i, op, st, dg, cl, plan, input, gone, newRemote) ==
  /\ state' = StateSet(i, st)
  /\ diags' = [diags EXCEPT ![i] = dg]
  /\ calls' = [calls EXCEPT ![i] = cl]
  /\ remote' = newRemote
  /\ hist' =
       [j \in Instances |->
          IF j # i THEN [hist[j] EXCEPT !.stored = KeepStored(@, newRemote)]
          ELSE [op |-> op, prior |-> state[i], plan |-> plan, input |-> input,
                gone |-> gone,
                imported |->
                  CASE op = "ImportState" -> ~HasError(dg)
                    [] op = "Read" -> hist[i].imported
                    [] OTHER -> FALSE,
                stored |->
                  IF op \in {"Create", "Update"} /\ ~HasError(dg)
                    THEN [valid |-> TRUE, by |-> op, rec |-> st.rec]
                    ELSE KeepStored(hist[i].stored, newRemote),
                minted |->
                  CASE op = "Create" /\ ~HasError(dg) -> nextId
                    [] op \in {"Read", "Update"} -> hist[i].minted
                    [] OTHER -> 0,
                panicked |-> FALSE]]
  /\ UNCHANGED <<insts, variant, cv, cx, cstage, cgen, cwire, cout, client, val, provider>>

(***************************************************************************)
(* The keys the handlers address the remote server with.                   *)
(***************************************************************************)
\* Read: GetNotificationContext(ctx, int(ID)) for email, GetNotificationById
\* (ctx, int32(ID)) for the others.
ReadKey(v, rec) ==
  IF v = Email THEN ValueInt64(rec.ID) ELSE I64(Narrow32(ValueInt64(rec.ID)))

\* Update: the ID of the request; the lidarr-go variants other than gotify
\* send it as strconv.Itoa(int(request.GetId())), which the server parses.
\* A faulty key that ignores the ID of the request.
UpdateKey_zero(v, request) == I64(0)

UpdateKey(v, request) ==
  IF v \in {Email, Gotify} THEN request.id
  ELSE Atoi(Itoa(Narrow32(request.id))).id

\* Delete: DeleteNotificationContext(ctx, ID) for email, DeleteNotification
\* (ctx, int32(ID)) for the others.
DeleteKey(v, rec) ==
  IF v = Email THEN ValueInt64(rec.ID) ELSE I64(Narrow32(ValueInt64(rec.ID)))


(***************************************************************************)
(* The handlers.  Each action is one whole handler: reading the plan or    *)
(* the prior state, the one remote call with the reply the server gives,   *)
(* and the local record and diagnostics it leaves.                         *)
(***************************************************************************)
Create(i, plan, ok) ==
  /\ i \in insts
  /\ client[i] = "set"
  /\ ~state[i].present
  /\ LET v == variant[i]
         request == read(v, plan)
         call == Call("create", request.id, request)
     IN  IF ok /\ nextId <= MaxRemoteId
           THEN LET response == ServerStore(request, nextId)
                IN  /\ nextId' = nextId + 1
                    /\ Record(i, "Create",
                              [present |-> TRUE, rec |-> write(v, plan, response)],
                              <<>>, <<call>>, plan, <<>>, FALSE,
                              [remote EXCEPT ![nextId] = [present |-> TRUE, rec |-> response]])
           ELSE /\ nextId' = nextId
                /\ Record(i, "Create", state[i],
                          <<ClientError(v, "Create", "transport")>>,
                          <<Failed(call, "transport")>>, plan, <<>>, FALSE, remote)

Read(i, ok) ==
  /\ i \in insts
  /\ client[i] = "set"
  /\ state[i].present
  /\ LET v == variant[i]
         notification == state[i].rec
         key == ReadKey(v, notification)
         gone == ~RemoteHas(remote, key)
         call == Call("get", key, NewNotificationResource)
     IN  /\ nextId' = nextId
         /\ IF ok /\ ~gone
              THEN Record(i, "Read",
                          [present |-> TRUE,
                           rec |-> write(v, notification, remote[key[2]].rec)],
                          <<>>, <<call>>, <<>>, <<>>, gone, remote)
              ELSE LET err == IF gone THEN "notfound" ELSE "transport"
                   IN  Record(i, "Read", state[i], <<ClientError(v, "Read", err)>>,
                              <<Failed(call, err)>>, <<>>, <<>>, gone, remote)

Update(i, plan, ok) ==
  /\ i \in insts
  /\ client[i] = "set"
  /\ state[i].present
  /\ plan \in {[p EXCEPT !.ID = state[i].rec.ID] : p \in Plans(variant[i])}
  /\ LET v == variant[i]
         request == read(v, plan)
         key == UpdateKey(v, request)
         gone == ~RemoteHas(remote, key)
         call == Call("update", key, request)
     IN  /\ nextId' = nextId
         /\ IF ok /\ ~gone
              THEN LET response == ServerStore(request, key[2])
                   IN  Record(i, "Update",
                              [present |-> TRUE, rec |-> write(v, plan, response)],
                              <<>>, <<call>>, plan, <<>>, gone,
                              [remote EXCEPT ![key[2]] = [present |-> TRUE, rec |-> response]])
              ELSE LET err == IF gone THEN "notfound" ELSE "transport"
                   IN  Record(i, "Update", state[i], <<ClientError(v, "Update", err)>>,
                              <<Failed(call, err)>>, plan, <<>>, gone, remote)

\* The server's reply to a delete: "ok"; "fail", an error with nothing done
\* (not found when it has no such record); "lost", the record removed but
\* the reply not received.
\* A Delete that leaves the record in place.
RemoveResource_kept(v, st) == st

\* resp.State.RemoveResource: the record st of a resource of variant v is
\* replaced by no record.
RemoveResource(v, st) == NoState(v)

Delete(i, reply) ==
  /\ i \in insts
  /\ client[i] = "set"
  /\ state[i].present
  /\ LET v == variant[i]
         key == DeleteKey(v, state[i].rec)
         gone == ~RemoteHas(remote, key)
         call == Call("delete", key, NewNotificationResource)
         removed == IF gone THEN remote ELSE [remote EXCEPT ![key[2]] = NoRecord]
     IN  /\ nextId' = nextId
         /\ IF reply = "ok"
              THEN Record(i, "Delete", RemoveResource(v, state[i]), <<>>, <<call>>, <<>>, <<>>, gone, removed)
              ELSE LET err == IF gone THEN "notfound" ELSE "transport"
                   IN  Record(i, "Delete", state[i], <<ClientError(v, "Delete", err)>>,
                              <<Failed(call, err)>>, <<>>, <<>>, gone,
                              IF reply = "lost" THEN removed ELSE remote)

\* helpers.ImportStatePassthroughIntID: the identifier parsed as an integer.
ImportStatePassthroughIntID(input) == Atoi(input)

\* The identifiers handed to ImportState.
ImportInputs ==
  {<<"1">>, <<"2">>, <<"4", "2", "9", "4", "9", "6", "7", "2", "9", "7">>,
   <<>>, <<"1", "a">>, <<"0">>, <<"-", "1">>}

ImportState(i, input) ==
  /\ i \in insts
  /\ input \in ImportInputs
  /\ LET v == variant[i]
         parsed == IF v = Email THEN Atoi(input) ELSE ImportStatePassthroughIntID(input)
     IN  /\ nextId' = nextId
         /\ IF parsed.err
              THEN Record(i, "ImportState", state[i], <<ImportError(v)>>, <<>>,
                          <<>>, input, FALSE, remote)
              ELSE Record(i, "ImportState",
                          [present |-> TRUE,
                           rec |-> [EmptyTyped(v) EXCEPT !.ID = Int64Value(parsed.id)]],
                          <<>>, <<>>, <<>>, input, FALSE, remote)

(***************************************************************************)
(* The remote server changed by someone else.                              *)
(***************************************************************************)
RemoteChange(newRemote) ==
  /\ remote' = newRemote
  /\ hist' = [j \in Instances |-> [hist[j] EXCEPT !.stored = KeepStored(@, newRemote)]]
  /\ UNCHANGED <<insts, variant, state, diags, calls, nextId, cv, cx, cstage, cgen, cwire, cout,
                  client, val, provider>>

RemoteEdit(id) ==
  /\ id \in RemoteIds
  /\ remote[id].present
  /\ remote[id].rec.implementation # "Webhook"
  /\ RemoteChange([remote EXCEPT ![id].rec.name = "renamed",
                                 ![id].rec.implementation = "Webhook",
                                 ![id].rec.configContract = "WebhookSettings"])

RemoteRemove(id) ==
  /\ id \in RemoteIds
  /\ remote[id].present
  /\ RemoteChange([remote EXCEPT ![id] = NoRecord])

(***************************************************************************)
(* The lifecycle specification: one instance of any variant.               *)
(***************************************************************************)
(***************************************************************************)
(* The provider.                                                           *)
(***************************************************************************)
\* A faulty resolution that falls back to the environment for an empty
\* configuration value.
Resolve_fallback(value, variable) ==
  IF value = Null \/ value = StringValue("") THEN variable ELSE ValueString(value)

\* The url and the api_key of Configure: the environment variable for a null
\* configuration value, the configuration value otherwise.
Resolve(value, variable) == IF value = Null THEN variable ELSE ValueString(value)

\* A faulty return for an unknown value that marks the provider configured.
Unresolved_configured(p, attribute) ==
  [p EXCEPT !.configured = TRUE,
            !.diags = <<[severity |-> "warning", summary |-> "Unable to create client",
                         attribute |-> attribute]>>]

\* Configure's return for an unknown url or api_key: a warning, nothing set.
Unresolved(p, attribute) ==
  [p EXCEPT !.diags = <<[severity |-> "warning", summary |-> "Unable to create client",
                         attribute |-> attribute]>>]

\* lidarrProvider.Configure on the provider p, which holds its configuration
\* and its environment.
ProviderConfigure(p) ==
  LET url == Resolve(p.config.url, p.env.LIDARR_URL)
      key == Resolve(p.config.api_key, p.env.LIDARR_API_KEY)
  IN  CASE p.config.url = Unknown -> Unresolved(p, "url")
        [] url = "" ->
             [p EXCEPT !.diags = <<[severity |-> "error", summary |-> "Unable to find URL",
                                    attribute |-> "url"]>>]
        [] p.config.api_key = Unknown -> Unresolved(p, "api_key")
        [] key = "" ->
             [p EXCEPT !.diags = <<[severity |-> "error", summary |-> "Unable to find API key",
                                    attribute |-> "api_key"]>>]
        [] OTHER -> [p EXCEPT !.client = [key |-> key, url |-> url], !.configured = TRUE]

\* provider.New: no client, not configured; the framework has not called
\* Configure yet.
New(config, env) ==
  [client |-> [key |-> "", url |-> ""], configured |-> FALSE, diags |-> <<>>,
   config |-> config, env |-> env, called |-> FALSE]

\* The provider of the lifecycle specifications: configured with a url and
\* an api_key.
ProviderReady ==
  provider =
    [ProviderConfigure(New([url |-> StringValue("http://lidarr"), api_key |-> StringValue("key")],
                           [LIDARR_URL |-> "", LIDARR_API_KEY |-> ""]))
       EXCEPT !.called = TRUE]

\* Every resource holds the client handle Configure stored.
Configured == client = [i \in Instances |-> "set"]

\* No configuration under validation.
ValIdle == val = [stage |-> "idle", config |-> <<>>, diags |-> <<>>]

CodecIdle ==
  /\ cv = "none"
  /\ cx = <<>>
  /\ cstage = "idle"
  /\ cgen = <<>>
  /\ cwire = <<>>
  /\ cout = <<>>

Init ==
  /\ insts = {"r1"}
  /\ variant \in [Instances -> NotificationVariants]
  /\ \A i \in Instances \ insts : variant[i] = Email
  /\ state = [i \in Instances |-> NoState(variant[i])]
  /\ diags = [i \in Instances |-> <<>>]
  /\ calls = [i \in Instances |-> <<>>]
  /\ hist = [i \in Instances |-> InitHist]
  /\ ProviderReady
  /\ remote = [id \in RemoteIds |-> NoRecord]
  /\ nextId = 1
  /\ CodecIdle
  /\ Configured
  /\ ValIdle

Next ==
  \/ \E i \in Instances, ok \in BOOLEAN :
       \E plan \in Plans(variant[i]) : Create(i, plan, ok)
  \/ \E i \in Instances, ok \in BOOLEAN : Read(i, ok)
  \/ \E i \in Instances, ok \in BOOLEAN :
       \E plan \in {[p EXCEPT !.ID = state[i].rec.ID] : p \in Plans(variant[i])} :
         Update(i, plan, ok)
  \/ \E i \in Instances, reply \in {"ok", "fail", "lost"} : Delete(i, reply)
  \/ \E i \in Instances, input \in ImportInputs : ImportState(i, input)
  \/ \E id \in RemoteIds : RemoteEdit(id)
  \/ \E id \in RemoteIds : RemoteRemove(id)

Spec == Init /\ [][Next]_vars


(***************************************************************************)
(* The codec specification: the conversions of one typed record of one     *)
(* variant, applied as the handlers apply them.                            *)
(***************************************************************************)
\* The largest ID the remote server's 32-bit ID can hold.
MaxInt32 == 2147483647

\* The values an attribute of a type is tried with.
ValuesOf(a) ==
  CASE a = "ID" ->
         {Null, Unknown, Int64Value(I64(0)), Int64Value(I64(1)), Int64Value(I64(MaxInt32)),
          Int64Value(<<2, 1>>)}
    [] a = "Tags" -> {Null, Unknown, Int64Set({}), Int64Set({1, 2})}
    [] AttrType(a) = "bool" -> {Null, Unknown, BoolValue(FALSE), BoolValue(TRUE)}
    [] AttrType(a) = "int" ->
         {Null, Unknown, Int64Value(I64(0)), Int64Value(I64(8)), Int64Value(<<2, 1>>)}
    [] AttrType(a) = "str" -> {Null, Unknown, StringValue(""), StringValue("x")}
    [] AttrType(a) = "sset" -> {Null, Unknown, StringSet({}), StringSet({"a@b", "c@d"})}

\* The typed records tried: the empty record, a sparse plan and a full
\* record with an ID, each with one attribute given each value of its type.
CodecBases(v) == {EmptyTyped(v), BasePlan(v), [FullPlan(v) EXCEPT !.ID = Int64Value(I64(1))]}

CodecInputs(v) ==
  {[base EXCEPT ![a] = x] : <<base, a, x>> \in
     {t \in CodecBases(v) \X TypedAttrs(v) \X UNION {ValuesOf(b) : b \in TypedAttrs(v)} :
        t[3] \in ValuesOf(t[2])}}

LifecycleIdle ==
  /\ insts = {}
  /\ variant = [i \in Instances |-> Email]
  /\ state = [i \in Instances |-> NoState(Email)]
  /\ diags = [i \in Instances |-> <<>>]
  /\ calls = [i \in Instances |-> <<>>]
  /\ hist = [i \in Instances |-> InitHist]
  /\ remote = [id \in RemoteIds |-> NoRecord]
  /\ nextId = 1

InitCodec ==
  /\ LifecycleIdle
  /\ ProviderReady
  /\ Configured
  /\ ValIdle
  /\ cv \in NotificationVariants
  /\ cx \in CodecInputs(cv)
  /\ cstage = "input"
  /\ cgen = <<>>
  /\ cwire = <<>>
  /\ cout = <<>>

\* toNotification, then fromNotification onto an empty typed record.
Project ==
  /\ cstage = "input"
  /\ cgen' = toNotification(cv, cx)
  /\ cout' = fromNotification(cv, EmptyTyped(cv), cgen')
  /\ cstage' = "projected"
  /\ UNCHANGED <<cv, cx, cwire, lifeVars, client, val, provider>>

\* read: the wire request of the record.
Encode ==
  /\ cstage = "input"
  /\ cgen' = toNotification(cv, cx)
  /\ cwire' = read(cv, cx)
  /\ cstage' = "encoded"
  /\ UNCHANGED <<cv, cx, cout, lifeVars, client, val, provider>>

\* write: the wire record decoded onto an empty typed record.
Decode ==
  /\ cstage = "encoded"
  /\ cout' = write(cv, EmptyTyped(cv), cwire)
  /\ cstage' = "decoded"
  /\ UNCHANGED <<cv, cx, cgen, cwire, lifeVars, client, val, provider>>

NextCodec == Project \/ Encode \/ Decode

SpecCodec == InitCodec /\ [][NextCodec]_vars


(***************************************************************************)
(* Properties.                                                             *)
(***************************************************************************)
\* The pair the specification fixes for each variant.
IdentityPair(v) ==
  CASE v = "notification_email" -> <<"Email", "EmailSettings">>
    [] v = "notification_gotify" -> <<"Gotify", "GotifySettings">>
    [] v = "notification_subsonic" -> <<"Xbmc", "XbmcSettings">>
    [] v = "notification_custom_script" -> <<"CustomScript", "CustomScriptSettings">>

\* A string that is a decimal integer: digits, after an optional sign.
IsDecimalInteger(s) ==
  LET d == IF Len(s) > 0 /\ s[1] \in {"+", "-"} THEN Tail(s) ELSE s
  IN  Len(d) > 0 /\ \A k \in 1..Len(d) : d[k] \in {"0", "1", "2", "3", "4", "5", "6", "7", "8", "9"}

\* An ID the remote server's 32-bit ID can hold.
ServerMintable(id) == id[1] = "int" /\ id[2][1] \in {0, 0 - 1}

\* C1: a Delete of a resource whose remote record is already gone reports
\* success (no error diagnostic) and removes the local record.
C1_DeleteIdempotent ==
  \A i \in insts :
    hist[i].op = "Delete" /\ hist[i].gone
      => ~HasError(diags[i]) /\ ~state[i].present

\* C2: a Read of a resource whose remote record is gone has an outcome of
\* its own: the local record is dropped, or the diagnostic is of another
\* kind than the Client Error every failed remote call is reported with.
C2_ReadSignalsNotFound ==
  \A i \in insts :
    hist[i].op = "Read" /\ hist[i].gone
      => \/ ~state[i].present
         \/ \E k \in 1..Len(diags[i]) : diags[i][k].summary # "Client Error"

\* C3: a successful Read of the record a successful Create or Update left,
\* with the remote record unchanged in between, yields that same record,
\* attribute for attribute.
C3_PlanStability ==
  \A i \in insts :
    hist[i].op = "Read" /\ ~HasError(diags[i])
      /\ hist[i].stored.valid /\ hist[i].prior.present
      /\ hist[i].prior.rec = hist[i].stored.rec
      => state[i].present /\ state[i].rec = hist[i].stored.rec

C3_Witness ==
  \E i \in insts :
    /\ hist[i].op = "Read" /\ ~HasError(diags[i])
    /\ hist[i].stored.valid /\ hist[i].stored.by = "Update"
    /\ hist[i].prior.present /\ hist[i].prior.rec = hist[i].stored.rec
    /\ variant[i] = Subsonic
    /\ state[i].rec.UseSSL = BoolValue(TRUE)

\* C4: an ImportState whose identifier is not a decimal integer adds the
\* import-identifier error, makes no remote call and leaves the local
\* record as it was.
C4_ImportRejectsNonDecimal ==
  \A i \in insts :
    hist[i].op = "ImportState" /\ ~IsDecimalInteger(hist[i].input)
      => /\ \E k \in 1..Len(diags[i]) :
              /\ diags[i][k].severity = "error"
              /\ diags[i][k].summary = "Unexpected Import Identifier"
         /\ calls[i] = <<>>
         /\ state[i] = hist[i].prior

C4_Witness ==
  \E i \in insts :
    /\ hist[i].op = "ImportState"
    /\ hist[i].input = <<"1", "a">>
    /\ variant[i] = Email
    /\ HasError(diags[i])
    /\ ~state[i].present

\* C5: after a successful Update, an ImportState by the ID of the record
\* followed by a successful Read, the remote record unchanged, yields the
\* record the Update left, attribute for attribute.
C5_ImportVerify ==
  \A i \in insts :
    hist[i].op = "Read" /\ ~HasError(diags[i]) /\ hist[i].imported
      /\ hist[i].stored.valid /\ hist[i].prior.present
      /\ hist[i].prior.rec = [EmptyTyped(variant[i]) EXCEPT !.ID = hist[i].stored.rec.ID]
      => state[i].present /\ state[i].rec = hist[i].stored.rec

C5_Witness ==
  \E i \in insts :
    /\ hist[i].op = "Read" /\ ~HasError(diags[i]) /\ hist[i].imported
    /\ hist[i].stored.valid /\ hist[i].stored.by = "Update"
    /\ hist[i].prior.present
    /\ hist[i].prior.rec = [EmptyTyped(variant[i]) EXCEPT !.ID = hist[i].stored.rec.ID]
    /\ state[i].rec[Knob(variant[i])] = KnobValue(variant[i])

\* C6: every request of a Create or an Update carries the Implementation and
\* ConfigContract fixed for the variant.
C6_FixedIdentity ==
  \A i \in insts : \A k \in 1..Len(calls[i]) :
    calls[i][k].api \in {"create", "update"}
      => <<calls[i][k].body.implementation, calls[i][k].body.configContract>>
           = IdentityPair(variant[i])

\* An Update sent from a record that was refreshed from a response holding
\* another implementation.
C6_Witness ==
  \E i \in insts :
    /\ hist[i].op = "Update"
    /\ Len(calls[i]) = 1 /\ calls[i][1].api = "update"
    /\ hist[i].prior.present
    /\ hist[i].prior.rec.Name = StringValue("renamed")
    /\ \E id \in RemoteIds : remote[id].present /\ remote[id].rec.implementation = "Webhook"

\* C7: toNotification followed by fromNotification reproduces the typed
\* record on every attribute of the variant.
C7_ProjectionIdentity ==
  cstage = "projected" => \A a \in TypedAttrs(cv) : cout[a] = cx[a]

C7_Witness ==
  /\ cstage = "projected"
  /\ cv = CustomScript
  /\ cx.Arguments = StringValue("x")
  /\ cx.Path = StringValue("test")
  /\ cout.Arguments = StringValue("x")

C9_OnlyDeclaredFields ==
  cstage = "encoded"
    => DOMAIN cwire.fields \subseteq {FieldName(a) : a \in TypedAttrs(cv) \cap Fields}

C9_Witness ==
  /\ cstage = "encoded"
  /\ cv = Subsonic
  /\ "host" \in DOMAIN cwire.fields
  /\ "from" \notin DOMAIN cwire.fields
  /\ "to" \notin DOMAIN cwire.fields

\* C10: an Update whose plan is the prior record with use_ssl changed from
\* false to true sends one request, keyed by the prior ID, that is the
\* request of the prior record with only useSsl changed; when it succeeds
\* the local record is the prior record with use_ssl true and the same ID.
C10_UpdateOneAttribute ==
  \A i \in insts :
    hist[i].op = "Update" /\ hist[i].prior.present
      /\ "UseSSL" \in TypedAttrs(variant[i])
      /\ hist[i].prior.rec.UseSSL = BoolValue(FALSE)
      /\ hist[i].plan = [hist[i].prior.rec EXCEPT !.UseSSL = BoolValue(TRUE)]
      => /\ Len(calls[i]) = 1
         /\ calls[i][1].api = "update"
         /\ calls[i][1].key = hist[i].prior.rec.ID[2]
         /\ calls[i][1].body =
              [read(variant[i], hist[i].prior.rec) EXCEPT !.fields.useSsl = JBool(TRUE)]
         /\ ~HasError(diags[i])
              => /\ state[i].present
                 /\ state[i].rec = [hist[i].prior.rec EXCEPT !.UseSSL = BoolValue(TRUE)]

C10_Witness ==
  \E i \in insts :
    /\ hist[i].op = "Update" /\ hist[i].prior.present
    /\ variant[i] = Subsonic
    /\ hist[i].prior.rec.UseSSL = BoolValue(FALSE)
    /\ hist[i].plan = [hist[i].prior.rec EXCEPT !.UseSSL = BoolValue(TRUE)]
    /\ ~HasError(diags[i])
    /\ state[i].rec.UseSSL = BoolValue(TRUE)
    /\ state[i].rec.ID = hist[i].prior.rec.ID


\* C11: while only Reads and Updates follow a successful Create, the local
\* record holds the ID the remote server minted at that Create.
C11_StableID ==
  \A i \in insts :
    hist[i].minted # 0
      => state[i].present /\ state[i].rec.ID = Int64Value(I64(hist[i].minted))

\* An Update and then a Read of a record another client edited, after Create.
C11_Witness ==
  \E i \in insts :
    /\ hist[i].minted # 0
    /\ hist[i].op = "Read" /\ ~HasError(diags[i])
    /\ hist[i].prior.present
    /\ hist[i].prior.rec[Knob(variant[i])] = KnobValue(variant[i])
    /\ state[i].rec.Name = StringValue("renamed")
    /\ state[i].rec.ID = Int64Value(I64(hist[i].minted))


\* C12: an operation whose remote call returned an error has an error
\* diagnostic and leaves the local record as it was before the operation.
C12_FailureKeepsState ==
  \A i \in insts :
    hist[i].op \in {"Create", "Read", "Update", "Delete"}
      /\ (\E k \in 1..Len(calls[i]) : calls[i][k].err # "none")
      => /\ \E k \in 1..Len(diags[i]) : diags[i][k].severity = "error"
         /\ state[i] = hist[i].prior

\* A Delete that failed after the remote record was removed, the record kept.
C12_Witness ==
  \E i \in insts :
    /\ hist[i].op = "Delete"
    /\ Len(calls[i]) = 1 /\ calls[i][1].err = "transport"
    /\ HasError(diags[i])
    /\ state[i].present /\ state[i] = hist[i].prior
    /\ ~RemoteHas(remote, DeleteKey(variant[i], state[i].rec))


(***************************************************************************)
(* The validation specification: a declared gotify configuration is        *)
(* validated against the schema, and the framework goes on to Create only  *)
(* when validation reported no error.                                      *)
(***************************************************************************)
\* A faulty value set that also admits 7.
PriorityValues_wide == {0, 2, 5, 7, 8}

\* int64validator.OneOf(0, 2, 5, 8) of priority.
PriorityValues == {0, 2, 5, 8}

\* The largest priority a configuration is tried with.
MaxPriority == 9

\* The validator of an attribute value: null and unknown values are not
\* validated.
OneOf(value, allowed) == IsKnown(value) => \E n \in allowed : value[2] = I64(n)

InvalidAttributeValue(v, a) ==
  [severity |-> "error", summary |-> "Invalid Attribute Value Match", label |-> "validate",
   name |-> v, err |-> a]

\* Declared gotify configurations: priority left out or any value up to
\* MaxPriority, with some of the other optional attributes.
ValConfigs ==
  {[BasePlan(Gotify) EXCEPT !.Priority = p, !.OnGrab = BoolValue(g),
                            !.OnUpgrade = u, !.Tags = t] :
     p \in {Null} \cup {Int64Value(I64(n)) : n \in 0..MaxPriority},
     g \in BOOLEAN, u \in {Null, BoolValue(TRUE)}, t \in {Null, Int64Set({1})}}

\* The plan of a configuration: what is left out of an optional computed
\* attribute is unknown.
PlanOf(config) ==
  [a \in DOMAIN config |-> IF config[a] = Null THEN Unknown ELSE config[a]]

InitValidate ==
  /\ insts = {"r1"}
  /\ variant = [i \in Instances |-> IF i \in insts THEN Gotify ELSE Email]
  /\ state = [i \in Instances |-> NoState(variant[i])]
  /\ diags = [i \in Instances |-> <<>>]
  /\ calls = [i \in Instances |-> <<>>]
  /\ hist = [i \in Instances |-> InitHist]
  /\ ProviderReady
  /\ remote = [id \in RemoteIds |-> NoRecord]
  /\ nextId = 1
  /\ CodecIdle
  /\ Configured
  /\ \E config \in ValConfigs : val = [stage |-> "declared", config |-> config, diags |-> <<>>]

\* The framework runs the validators of the schema on the configuration.
ValidateConfig ==
  /\ val.stage = "declared"
  /\ val' = [val EXCEPT
               !.stage = "validated",
               !.diags = IF OneOf(val.config.Priority, PriorityValues) THEN <<>>
                         ELSE <<InvalidAttributeValue(Gotify, "priority")>>]
  /\ UNCHANGED <<lifeVars, codecVars, client, provider>>

\* Create of a configuration that passed validation.
ValidatedCreate(ok) ==
  /\ val.stage = "validated"
  /\ ~HasError(val.diags)
  /\ Create("r1", PlanOf(val.config), ok)

NextValidate ==
  \/ ValidateConfig
  \/ \E ok \in BOOLEAN : ValidatedCreate(ok)
  \/ \E ok \in BOOLEAN : Read("r1", ok)

SpecValidate == InitValidate /\ [][NextValidate]_vars

\* C13: a gotify configuration whose priority is declared and is not 0, 2,
\* 5 or 8 has an error after validation, and no remote call is ever made
\* for it nor a record stored; a priority of 0, 2, 5 or 8 passes validation.
C13_PriorityValidated ==
  LET p == val.config.Priority
      allowed == {Int64Value(I64(0)), Int64Value(I64(2)), Int64Value(I64(5)),
                  Int64Value(I64(8))}
  IN  /\ val.stage = "validated" /\ p # Null /\ p \notin allowed => HasError(val.diags)
      /\ p # Null /\ p \notin allowed => calls["r1"] = <<>> /\ ~state["r1"].present
      /\ val.stage = "validated" /\ p \in allowed => ~HasError(val.diags)

C13_Witness ==
  /\ val.stage = "validated"
  /\ val.config.Priority = Int64Value(I64(7))
  /\ HasError(val.diags)
  /\ calls["r1"] = <<>>


\* C14: the diagnostic of an operation whose remote call failed names that
\* operation (create, read, update, delete) and the resource kind.
C14_ErrorLabels ==
  \A i \in insts :
    hist[i].op \in {"Create", "Read", "Update", "Delete"}
      /\ (\E k \in 1..Len(calls[i]) : calls[i][k].err # "none")
      => \E k \in 1..Len(diags[i]) :
           /\ diags[i][k].name = variant[i]
           /\ diags[i][k].label =
                CASE hist[i].op = "Create" -> "create"
                  [] hist[i].op = "Read" -> "read"
                  [] hist[i].op = "Update" -> "update"
                  [] hist[i].op = "Delete" -> "delete"


ProviderData == {"nil", "client", "other"}

\* resp.Diagnostics.AddError(UnexpectedResourceConfigureType, ...).
ConfigureError(v) ==
  [severity |-> "error", summary |-> "Unexpected Resource Configure Type",
   label |-> "configure", name |-> v, err |-> "type"]

InitConfigure ==
  /\ insts = {"r1"}
  /\ variant = [i \in Instances |-> Email]
  /\ state = [i \in Instances |-> NoState(variant[i])]
  /\ diags = [i \in Instances |-> <<>>]
  /\ calls = [i \in Instances |-> <<>>]
  /\ hist = [i \in Instances |-> InitHist]
  /\ ProviderReady
  /\ remote = [id \in RemoteIds |-> NoRecord]
  /\ nextId = 1
  /\ CodecIdle
  /\ ValIdle
  /\ client = [i \in Instances |-> "nil"]

\* NotificationEmailResource.Configure.
Configure(i, data) ==
  /\ i \in insts
  /\ data \in ProviderData
  /\ client' = [client EXCEPT ![i] = IF data = "client" THEN "set" ELSE @]
  /\ diags' = [diags EXCEPT ![i] = IF data = "other" THEN <<ConfigureError(variant[i])>> ELSE <<>>]
  /\ calls' = [calls EXCEPT ![i] = <<>>]
  /\ hist' = [hist EXCEPT ![i] =
                [@ EXCEPT !.op = "Configure", !.prior = state[i], !.plan = <<>>,
                          !.input = <<>>, !.gone = FALSE, !.panicked = FALSE]]
  /\ UNCHANGED <<insts, variant, state, remote, nextId, codecVars, val, provider>>

\* A Create, Read, Update or Delete of a resource without a client handle:
\* the call through the nil client panics before anything is sent or
\* reported.
NilClientPanic(i, op) ==
  /\ i \in insts
  /\ client[i] # "set"
  /\ op \in {"Create", "Read", "Update", "Delete"}
  /\ (op = "Create") = ~state[i].present
  /\ calls' = [calls EXCEPT ![i] = <<>>]
  /\ diags' = [diags EXCEPT ![i] = <<>>]
  /\ hist' = [hist EXCEPT ![i] =
                [@ EXCEPT !.op = op, !.prior = state[i], !.plan = <<>>, !.input = <<>>,
                          !.gone = FALSE, !.panicked = TRUE]]
  /\ UNCHANGED <<insts, variant, state, remote, nextId, codecVars, val, client, provider>>

NextConfigure ==
  \/ \E i \in Instances, data \in ProviderData : Configure(i, data)
  \/ \E i \in Instances, op \in {"Create", "Read", "Update", "Delete"} : NilClientPanic(i, op)
  \/ \E i \in Instances, input \in ImportInputs : ImportState(i, input)
  \/ \E i \in Instances, ok \in BOOLEAN :
       \E plan \in Plans(variant[i]) : Create(i, plan, ok)
  \/ \E i \in Instances, ok \in BOOLEAN : Read(i, ok)
  \/ \E i \in Instances, reply \in {"ok", "fail", "lost"} : Delete(i, reply)

SpecConfigure == InitConfigure /\ [][NextConfigure]_vars

\* C16: a lifecycle operation of a resource that holds no client handle
\* ends with an error diagnostic.
C16_NilClientReported ==
  \A i \in insts :
    client[i] # "set"
      /\ hist[i].op \in {"Create", "Read", "Update", "Delete", "ImportState"}
      => HasError(diags[i])


(***************************************************************************)
(* The coercion specification: the lifecycle of one instance against a     *)
(* server whose responses may carry a field value of another dynamic type  *)
(* than the attribute declares (the value of a field is untyped on the     *)
(* wire), or lack a field.                                                 *)
(***************************************************************************)
\* The dynamic type a declared attribute type is read from.
WireType(type) ==
  CASE type = "bool" -> "jbool"
    [] type = "int" -> "jnum"
    [] type = "str" -> "jstr"
    [] type = "sset" -> "jarr"

\* The fields of a response whose value is not of the declared type.
Mistyped(notification) ==
  {w \in DOMAIN notification.fields :
     notification.fields[w][1] # WireType(AttrType(FieldOf(w)))}

\* The server starts answering with a string (a boolean, for a string
\* attribute) as the value of one field of a record.
RemoteMistype(id, w) ==
  /\ id \in RemoteIds
  /\ remote[id].present
  /\ Mistyped(remote[id].rec) = {}
  /\ w \in DOMAIN remote[id].rec.fields
  /\ RemoteChange([remote EXCEPT ![id].rec.fields[w] =
                     IF @[1] = "jstr" THEN JBool(TRUE) ELSE JStr("on")])

\* The server stops returning one field of the contract of a record.
RemoteOmit(id, w) ==
  /\ id \in RemoteIds
  /\ remote[id].present
  /\ Mistyped(remote[id].rec) = {}
  /\ ContractFields(remote[id].rec.implementation) \subseteq DOMAIN remote[id].rec.fields
  /\ w \in ContractFields(remote[id].rec.implementation)
  /\ RemoteChange([remote EXCEPT ![id].rec.fields =
                     [x \in (DOMAIN @) \ {w} |-> @[x]]])

NextCoerce ==
  \/ \E i \in Instances, ok \in BOOLEAN :
       \E plan \in Plans(variant[i]) : Create(i, plan, ok)
  \/ \E i \in Instances, ok \in BOOLEAN : Read(i, ok)
  \/ \E id \in RemoteIds : \E w \in FieldNames : RemoteMistype(id, w)
  \/ \E id \in RemoteIds : \E w \in FieldNames : RemoteOmit(id, w)

SpecCoerce == Init /\ [][NextCoerce]_vars

\* The attributes of an instance's record that hold no value although the
\* server's record carries a value, of another type, for them.
EmptiedByCoercion(i) ==
  {a \in TypedAttrs(variant[i]) \cap Fields :
     /\ state[i].rec[a] = Null
     /\ \E id \in RemoteIds :
          /\ state[i].rec.ID = Int64Value(I64(id))
          /\ remote[id].present
          /\ FieldName(a) \in Mistyped(remote[id].rec)}

\* C17: an operation whose response carries a value that cannot be
\* converted to the attribute's declared type reports an error and stores
\* no empty value for the attribute.
C17_CoercionReported ==
  \A i \in insts :
    /\ hist[i].op \in {"Create", "Read", "Update"}
    /\ state[i].present
    /\ EmptiedByCoercion(i) # {}
    => HasError(diags[i])


\* An operation of instance i happened in the step: something it records
\* changed.
OperationOf(i) ==
  \/ state'[i] # state[i]
  \/ diags'[i] # diags[i]
  \/ calls'[i] # calls[i]
  \/ [hist'[i] EXCEPT !.stored = NoStored] # [hist[i] EXCEPT !.stored = NoStored]

\* C18: a Delete without an error leaves no local record; an instance
\* without a local record gets one only by a Create or an ImportState
\* without an error; and no Read, Update or Delete happens on an instance
\* that has no local record.
C18_DeletedTerminal ==
  [][\A i \in Instances :
       /\ OperationOf(i) /\ hist'[i].op = "Delete" /\ ~HasError(diags'[i])
            => ~state'[i].present
       /\ ~state[i].present /\ state'[i].present
            => hist'[i].op \in {"Create", "ImportState"} /\ ~HasError(diags'[i])
       /\ ~state[i].present /\ OperationOf(i)
            => hist'[i].op \notin {"Read", "Update", "Delete"}]_vars

\* Reached: a record created on the server, then deleted without an error.
C18_Witness ==
  \E i \in insts :
    /\ hist[i].op = "Delete"
    /\ ~HasError(diags[i])
    /\ hist[i].prior.present
    /\ ~hist[i].gone
    /\ ~state[i].present


(***************************************************************************)
(* The pair specification: a subsonic and a gotify resource, each with     *)
(* its own local record, whose lifecycle operations the framework          *)
(* interleaves against the one remote server.                              *)
(***************************************************************************)
InitPair ==
  /\ insts = {"r1", "r2"}
  /\ variant = [i \in Instances |-> IF i = "r1" THEN Subsonic ELSE Gotify]
  /\ state = [i \in Instances |-> NoState(variant[i])]
  /\ diags = [i \in Instances |-> <<>>]
  /\ calls = [i \in Instances |-> <<>>]
  /\ hist = [i \in Instances |-> InitHist]
  /\ ProviderReady
  /\ remote = [id \in RemoteIds |-> NoRecord]
  /\ nextId = 1
  /\ CodecIdle
  /\ Configured
  /\ ValIdle

NextPair ==
  \/ \E i \in Instances, ok \in BOOLEAN : Create(i, FullPlan(variant[i]), ok)
  \/ \E i \in Instances, ok \in BOOLEAN : Read(i, ok)
  \/ \E i \in Instances, ok \in BOOLEAN :
       Update(i, [BasePlan(variant[i]) EXCEPT !.ID = state[i].rec.ID], ok)
  \/ \E i \in Instances, reply \in {"ok", "fail", "lost"} : Delete(i, reply)
  \/ \E i \in Instances : ImportState(i, <<"2">>)

SpecPair == InitPair /\ [][NextPair]_vars

\* Instance i holds a local record with the remote ID id.
Holds(i, id) == state[i].present /\ state[i].rec.ID = Int64Value(I64(id))

Fetched(i) == remote[ReadKey(variant[i], state[i].rec)[2]].rec

\* C20: a Read without an error leaves in the local record the values the
\* remote record holds at that Read: its name, its tags, its event flags
\* and its fields, whatever the local record held before.
C20_ReadFetches ==
  [][\A i \in insts :
       OperationOf(i) /\ hist'[i].op = "Read" /\ ~HasError(diags'[i]) =>
         /\ state'[i].rec.Name = StringValue(Fetched(i).name)
         /\ state'[i].rec.Tags = Int64Set(Fetched(i).tags)
         /\ \A a \in TypedAttrs(variant[i]) \cap Flags :
              state'[i].rec[a] = BoolValue(Fetched(i).flags[a])
         /\ \A a \in TypedAttrs(variant[i]) \cap Fields :
              FieldName(a) \in DOMAIN Fetched(i).fields =>
                state'[i].rec[a] = FromWire(AttrType(a), Fetched(i).fields[FieldName(a)])]_vars

\* Reached: an imported record was read, the remote record was renamed, and
\* a second Read replaced the name the first Read had stored.
C20_Witness ==
  \E i \in insts :
    /\ hist[i].op = "Read"
    /\ ~HasError(diags[i])
    /\ hist[i].imported
    /\ IsKnown(hist[i].prior.rec.Name)
    /\ hist[i].prior.rec.Name # StringValue("renamed")
    /\ state[i].rec.Name = StringValue("renamed")


(***************************************************************************)
(* The cancellation specification: the lifecycle of one instance in which  *)
(* the framework may cancel the context of an operation while its remote   *)
(* call is in flight, or hand it a plan or a prior state it cannot read.    *)
(***************************************************************************)
\* The context a handler hands to its remote call: the context of the
\* operation, or, for gotify, the context Configure stored in r.auth.
CallContext(v) == IF v = Gotify THEN "auth" ELSE "ctx"

\* A Create or a Read whose context is cancelled during the remote call.  A
\* call made with the operation's context returns the cancellation as its
\* error; a call made with another context runs to its response.
CancelDuringCall(i, op) ==
  /\ i \in insts
  /\ client[i] = "set"
  /\ op \in {"Create", "Read"}
  /\ LET v == variant[i]
         aborted == CallContext(v) = "ctx"
         plan == FullPlan(v)
         request == read(v, plan)
         key == ReadKey(v, state[i].rec)
         call == [c \in {"cancelled"} \cup DOMAIN Call("get", key, NewNotificationResource) |->
                    IF c = "cancelled" THEN TRUE
                    ELSE IF op = "Create" THEN Call("create", request.id, request)[c]
                    ELSE Call("get", key, NewNotificationResource)[c]]
     IN  IF op = "Create"
           THEN /\ ~state[i].present
                /\ nextId <= MaxRemoteId
                /\ IF aborted
                     THEN /\ nextId' = nextId
                          /\ Record(i, op, state[i], <<ClientError(v, op, "canceled")>>,
                                    <<Failed(call, "canceled")>>, plan, <<>>, FALSE, remote)
                     ELSE LET response == ServerStore(request, nextId)
                          IN  /\ nextId' = nextId + 1
                              /\ Record(i, op,
                                        [present |-> TRUE, rec |-> write(v, plan, response)],
                                        <<>>, <<call>>, plan, <<>>, FALSE,
                                        [remote EXCEPT ![nextId] =
                                           [present |-> TRUE, rec |-> response]])
           ELSE /\ state[i].present
                /\ RemoteHas(remote, key)
                /\ nextId' = nextId
                /\ IF aborted
                     THEN Record(i, op, state[i], <<ClientError(v, op, "canceled")>>,
                                 <<Failed(call, "canceled")>>, <<>>, <<>>, FALSE, remote)
                     ELSE Record(i, op,
                                 [present |-> TRUE,
                                  rec |-> write(v, state[i].rec, remote[key[2]].rec)],
                                 <<>>, <<call>>, <<>>, <<>>, FALSE, remote)

\* A faulty handler that goes on to its remote call after the error.
GetError_called(i, op) ==
  /\ i \in insts
  /\ client[i] = "set"
  /\ op \in {"Create", "Read", "Update", "Delete"}
  /\ (op = "Create") = ~state[i].present
  /\ nextId' = nextId
  /\ Record(i, op, state[i],
            <<[severity |-> "error", summary |-> "Value Conversion Error", label |-> "get",
               name |-> variant[i], err |-> "conversion"]>>,
            <<Call("get", I64(0), NewNotificationResource)>>, <<>>, <<>>, FALSE, remote)

\* A handler whose req.Plan.Get (Create, Update) or req.State.Get (Read,
\* Delete) yields an error diagnostic: it appends the diagnostic and
\* returns.
GetError(i, op) ==
  /\ i \in insts
  /\ client[i] = "set"
  /\ op \in {"Create", "Read", "Update", "Delete"}
  /\ (op = "Create") = ~state[i].present
  /\ nextId' = nextId
  /\ Record(i, op, state[i],
            <<[severity |-> "error", summary |-> "Value Conversion Error", label |-> "get",
               name |-> variant[i], err |-> "conversion"]>>,
            <<>>, <<>>, <<>>, FALSE, remote)

NextCancel ==
  \/ \E i \in Instances, ok \in BOOLEAN :
       \E plan \in Plans(variant[i]) : Create(i, plan, ok)
  \/ \E i \in Instances, ok \in BOOLEAN : Read(i, ok)
  \/ \E i \in Instances, reply \in {"ok", "fail"} : Delete(i, reply)
  \/ \E id \in RemoteIds : RemoteEdit(id)
  \/ \E i \in Instances, op \in {"Create", "Read"} : CancelDuringCall(i, op)
  \/ \E i \in Instances, op \in {"Create", "Read", "Update", "Delete"} : GetError(i, op)

SpecCancel == Init /\ [][NextCancel]_vars

\* C21: an operation whose context is cancelled during its remote call has
\* the call return the cancellation, and leaves the local record as it was.
C21_CancelAborts ==
  \A i \in insts :
    calls[i] # <<>> /\ "cancelled" \in DOMAIN calls[i][1] =>
      /\ calls[i][1].err = "canceled"
      /\ state[i] = hist[i].prior


(***************************************************************************)
(* The listing specification: the notifications data source read against   *)
(* a server whose notifications other clients add, edit and remove.        *)
(***************************************************************************)
\* The IDs of the notifications other clients create: 1 .. MaxListed.
MaxListed == 2

\* The notifications the server lists.
ListNotification == {remote[id].rec : id \in {d \in DOMAIN remote : remote[d].present}}

\* A collection id that does not follow the response.
CollectionID_fixed(response) == StringValue(Itoa(1))

\* data.ID = types.StringValue(strconv.Itoa(len(response))).
CollectionID(response) == StringValue(Itoa(Cardinality(response)))

InitList ==
  /\ insts = {"r2"}
  /\ variant = [i \in Instances |-> IF i = "r2" THEN "notifications" ELSE Email]
  /\ state = [i \in Instances |->
                IF i = "r2" THEN [present |-> FALSE, rec |-> <<>>] ELSE NoState(variant[i])]
  /\ diags = [i \in Instances |-> <<>>]
  /\ calls = [i \in Instances |-> <<>>]
  /\ hist = [i \in Instances |-> InitHist]
  /\ ProviderReady
  /\ remote = [id \in 1..MaxListed |-> NoRecord]
  /\ nextId = 1
  /\ CodecIdle
  /\ Configured
  /\ ValIdle

\* NotificationsDataSource.Read.
NotificationsRead(i, ok) ==
  /\ i \in insts
  /\ variant[i] = "notifications"
  /\ client[i] = "set"
  /\ nextId' = nextId
  /\ LET response == ListNotification
         call == Call("list", I64(0), NewNotificationResource)
     IN  IF ok
           THEN Record(i, "Read",
                       [present |-> TRUE,
                        rec |-> [Notifications |->
                                   {Notification_write(EmptyNotification, p) : p \in response},
                                 ID |-> CollectionID(response)]],
                       <<>>, <<call>>, <<>>, <<>>, FALSE, remote)
           ELSE Record(i, "Read", state[i],
                       <<[ClientError(Email, "Read", "transport") EXCEPT !.name = variant[i]]>>,
                       <<Failed(call, "transport")>>, <<>>, <<>>, FALSE, remote)

\* Another client creates a notification of variant v under a free ID.
RemoteAdd(id, v) ==
  /\ id \in DOMAIN remote
  /\ ~remote[id].present
  /\ RemoteChange([remote EXCEPT ![id] =
                     [present |-> TRUE, rec |-> ServerStore(read(v, FullPlan(v)), id)]])

NextList ==
  \/ \E i \in Instances, ok \in BOOLEAN : NotificationsRead(i, ok)
  \/ \E id \in 1..MaxListed, v \in NotificationVariants : RemoteAdd(id, v)
  \/ \E id \in RemoteIds : RemoteEdit(id)
  \/ \E id \in RemoteIds : RemoteRemove(id)

SpecList == InitList /\ [][NextList]_vars

\* C22: a Read of the notifications data source without an error stores as
\* many entries as the server lists, for every listed notification of a
\* known variant an entry whose projection to the variant is what the
\* variant's own write stores for it, and as id the decimal text of the
\* number of listed notifications.
C22_ListProjection ==
  [][\A i \in insts :
       /\ OperationOf(i)
       /\ variant[i] = "notifications"
       /\ hist'[i].op = "Read"
       /\ ~HasError(diags'[i])
       => /\ Cardinality(state'[i].rec.Notifications) = Cardinality(ListNotification)
          /\ \A p \in ListNotification, v \in NotificationVariants :
               p.implementation = Implementation(v) =>
                 \E e \in state'[i].rec.Notifications :
                   fromNotification(v, EmptyTyped(v), e) = write(v, EmptyTyped(v), p)
          /\ state'[i].rec.ID = StringValue(Itoa(Cardinality(ListNotification)))]_vars

\* Reached: a Read that stored two entries and the id "2".
C22_Witness ==
  \E i \in insts :
    /\ variant[i] = "notifications"
    /\ hist[i].op = "Read"
    /\ ~HasError(diags[i])
    /\ state[i].present
    /\ Cardinality(state[i].rec.Notifications) = 2
    /\ state[i].rec.ID = StringValue(<<"2">>)


(***************************************************************************)
(* The provider specification: a new provider with any configuration and   *)
(* environment, on which the framework calls Configure once.               *)
(***************************************************************************)
InitProvider ==
  /\ LifecycleIdle
  /\ CodecIdle
  /\ Configured
  /\ ValIdle
  /\ \E url \in {Null, Unknown, StringValue(""), StringValue("set")},
        key \in {Null, Unknown, StringValue(""), StringValue("set")},
        eu \in {"", "env"}, ek \in {"", "env"} :
       provider = New([url |-> url, api_key |-> key], [LIDARR_URL |-> eu, LIDARR_API_KEY |-> ek])

ConfigureProvider ==
  /\ ~provider.called
  /\ provider' = [ProviderConfigure(provider) EXCEPT !.called = TRUE]
  /\ UNCHANGED <<lifeVars, codecVars, client, val>>

SpecProvider == InitProvider /\ [][ConfigureProvider]_vars

\* C23: after Configure, a configured provider's client holds, for the url
\* and for the api_key, the configuration value when it is not null and the
\* environment variable when it is; Configure ends with an error when the
\* url is known and resolves to the empty string, or the url resolves and
\* the api_key is known and resolves to the empty string; an empty
\* configuration value is never replaced by the environment variable.
C23_Resolution ==
  provider.called =>
    LET url == IF provider.config.url = Null THEN provider.env.LIDARR_URL
               ELSE ValueString(provider.config.url)
        key == IF provider.config.api_key = Null THEN provider.env.LIDARR_API_KEY
               ELSE ValueString(provider.config.api_key)
        urlKnown == provider.config.url # Unknown
        keyKnown == provider.config.api_key # Unknown
    IN  /\ provider.configured => provider.client = [key |-> key, url |-> url]
        /\ urlKnown /\ url = "" => HasError(provider.diags)
        /\ urlKnown /\ url # "" /\ keyKnown /\ key = "" => HasError(provider.diags)
        /\ provider.config.url = StringValue("") => HasError(provider.diags)
        /\ urlKnown /\ url # "" /\ provider.config.api_key = StringValue("")
             => HasError(provider.diags)
        /\ urlKnown /\ url # "" /\ keyKnown /\ key # "" => ~HasError(provider.diags)

\* Reached: Configure ended with an error for an empty url in the
\* configuration although LIDARR_URL is set.
C23_Witness ==
  /\ provider.called
  /\ provider.config.url = StringValue("")
  /\ provider.env.LIDARR_URL = "env"
  /\ HasError(provider.diags)

\* C24: the provider is configured exactly when Configure was called with a
\* url and an api_key that are known and resolve to non-empty strings; a
\* Configure that ends with a warning or an error leaves it not configured
\* and without a client.
C24_ConfiguredFlag ==
  /\ provider.configured <=>
       /\ provider.called
       /\ provider.config.url # Unknown
       /\ provider.config.api_key # Unknown
       /\ Resolve(provider.config.url, provider.env.LIDARR_URL) # ""
       /\ Resolve(provider.config.api_key, provider.env.LIDARR_API_KEY) # ""
  /\ provider.diags # <<>> =>
       ~provider.configured /\ provider.client = [key |-> "", url |-> ""]

\* Reached: Configure ended with a warning for an unknown api_key.
C24_Witness ==
  /\ provider.called
  /\ provider.config.api_key = Unknown
  /\ provider.diags # <<>>
  /\ ~HasError(provider.diags)


\* C26: the key of every get, update and delete call is the ID the local
\* record held when the operation started.
C26_KeyIsLocalID ==
  \A i \in insts :
    hist[i].op \in {"Read", "Update", "Delete"} /\ calls[i] # <<>> =>
      calls[i][1].key = ValueInt64(hist[i].prior.rec.ID)


(***************************************************************************)
(* The indexer specification: the single-indexer data source, configured   *)
(* with a name, read against a server whose list of indexers (here the     *)
(* records of remote, in the order of the list) other clients change.      *)
(***************************************************************************)
\* A faulty search that returns the last indexer of the name.
findIndexer_last(name, indexers) ==
  LET found == {k \in 1..Len(indexers) : indexers[k].name = name}
  IN  IF found = {} THEN [err |-> TRUE, indexer |-> <<>>]
      ELSE [err |-> FALSE, indexer |-> indexers[CHOOSE k \in found : \A l \in found : l <= k]]

\* findIndexer: the first indexer of the list with the name, or an error.
findIndexer(name, indexers) ==
  LET found == {k \in 1..Len(indexers) : indexers[k].name = name}
  IN  IF found = {} THEN [err |-> TRUE, indexer |-> <<>>]
      ELSE [err |-> FALSE, indexer |-> indexers[CHOOSE k \in found : \A l \in found : k <= l]]

InitIndexer ==
  /\ insts = {"r2"}
  /\ variant = [i \in Instances |-> IF i = "r2" THEN "indexer" ELSE Email]
  /\ state = [i \in Instances |->
                IF i = "r2" THEN [present |-> FALSE, rec |-> <<>>] ELSE NoState(variant[i])]
  /\ diags = [i \in Instances |-> <<>>]
  /\ calls = [i \in Instances |-> <<>>]
  /\ hist = [i \in Instances |-> InitHist]
  /\ ProviderReady
  /\ remote = [id \in 1..MaxListed |-> NoRecord]
  /\ nextId = 1
  /\ CodecIdle
  /\ Configured
  /\ \E name \in {"a", "b", "c"} :
       val = [stage |-> "validated", config |-> [name |-> StringValue(name)], diags |-> <<>>]

\* Another client adds, replaces or (name "") removes the indexer at a place
\* of the list.
RemoteIndexer(id, name, protocol) ==
  /\ id \in DOMAIN remote
  /\ RemoteChange([remote EXCEPT ![id] =
                     IF name = "" THEN NoRecord
                     ELSE [present |-> TRUE,
                           rec |-> [id |-> I64(id), name |-> name, protocol |-> protocol]]])

\* IndexerDataSource.Read: data is the response state, which the framework
\* fills with the configuration; Indexer.write stores the indexer found.
IndexerRead(i, ok) ==
  /\ i \in insts
  /\ variant[i] = "indexer"
  /\ client[i] = "set"
  /\ nextId' = nextId
  /\ LET data == val.config
         present == {k \in DOMAIN remote : remote[k].present}
         response == [k \in 1..Cardinality(present) |->
                        remote[CHOOSE d \in present :
                                 Cardinality({e \in present : e < d}) = k - 1].rec]
         call == Call("list", I64(0), NewNotificationResource)
         found == findIndexer(ValueString(data.name), response)
         error(summary, err) ==
           [ClientError(Email, "Read", err) EXCEPT !.name = variant[i], !.summary = summary]
     IN  CASE ~ok ->
                Record(i, "Read", state[i], <<error("Client Error", "transport")>>,
                       <<Failed(call, "transport")>>, <<>>, <<>>, FALSE, remote)
           [] ok /\ found.err ->
                Record(i, "Read", state[i], <<error("Data Source Error", "notfound")>>,
                       <<call>>, <<>>, <<>>, TRUE, remote)
           [] OTHER ->
                Record(i, "Read",
                       [present |-> TRUE,
                        rec |-> [ID |-> Int64Value(found.indexer.id),
                                 Name |-> StringValue(found.indexer.name),
                                 Protocol |-> StringValue(found.indexer.protocol)]],
                       <<>>, <<call>>, <<>>, <<>>, FALSE, remote)

NextIndexer ==
  \/ \E i \in Instances, ok \in BOOLEAN : IndexerRead(i, ok)
  \/ \E id \in 1..MaxListed, name \in {"", "a", "b"}, protocol \in {"usenet", "torrent"} :
       RemoteIndexer(id, name, protocol)

SpecIndexer == InitIndexer /\ [][NextIndexer]_vars

\* C25: a Read of the indexer data source whose list call returned stores
\* the first listed indexer whose name is the configured name, and without
\* such an indexer ends with a data source error and stores nothing.
C25_FirstByName ==
  [][\A i \in insts :
       /\ OperationOf(i)
       /\ variant[i] = "indexer"
       /\ hist'[i].op = "Read"
       /\ calls'[i][1].err = "none"
       => LET named == {k \in DOMAIN remote :
                          /\ remote[k].present
                          /\ StringValue(remote[k].rec.name) = val.config.name}
          IN  IF named = {}
                THEN /\ HasError(diags'[i])
                     /\ diags'[i][1].summary = "Data Source Error"
                     /\ state'[i] = state[i]
                ELSE /\ ~HasError(diags'[i])
                     /\ \E k \in named :
                          /\ \A l \in named : k <= l
                          /\ state'[i].rec.ID = Int64Value(remote[k].rec.id)
                          /\ state'[i].rec.Protocol = StringValue(remote[k].rec.protocol)
                     /\ state'[i].rec.Name = val.config.name]_vars

\* Reached: two listed indexers have the configured name and the Read
\* stored the first.
C25_Witness ==
  \E i \in insts :
    /\ variant[i] = "indexer"
    /\ hist[i].op = "Read"
    /\ ~HasError(diags[i])
    /\ state[i].present
    /\ state[i].rec.ID = Int64Value(I64(1))
    /\ \A k \in DOMAIN remote :
         remote[k].present /\ StringValue(remote[k].rec.name) = val.config.name


\* C27: a Read without an error leaves unset every field attribute of the
\* variant whose field the response lacks, for every variant.
C27_UniformRefresh ==
  [][\A i \in insts :
       OperationOf(i) /\ hist'[i].op = "Read" /\ ~HasError(diags'[i]) =>
         \A a \in TypedAttrs(variant[i]) \cap Fields :
           FieldName(a) \notin DOMAIN Fetched(i).fields => state'[i].rec[a] = Null]_vars


\* C29: an ImportState of the decimal text of an integer, zero and negative
\* ones included, ends without an error and without a remote call, with a
\* local record that holds that integer as its ID and no other attribute,
\* whether or not the remote server has a record of that ID.
C29_ImportSetsOnlyID ==
  \A i \in insts :
    hist[i].op = "ImportState" /\ IsDecimalInteger(hist[i].input) =>
      /\ ~HasError(diags[i])
      /\ calls[i] = <<>>
      /\ state[i].present
      /\ \A n \in (0 - 2)..2 : hist[i].input = Itoa(n) => state[i].rec.ID = Int64Value(I64(n))
      /\ IsKnown(state[i].rec.ID)
      /\ \A a \in TypedAttrs(variant[i]) \ {"ID"} : state[i].rec[a] = Null

\* Reached: the import of "-1", an ID no remote record has.
C29_Witness ==
  \E i \in insts :
    /\ hist[i].op = "ImportState"
    /\ hist[i].input = <<"-", "1">>
    /\ state[i].present
    /\ state[i].rec.ID = Int64Value(I64(0 - 1))
    /\ \A id \in RemoteIds : ~remote[id].present


\* C30: an operation whose reading of the plan or of the prior state gave
\* an error diagnostic made no remote call and left the local record and
\* the remote records as they were.
C30_GetErrorReturns ==
  [][\A i \in insts :
       /\ OperationOf(i)
       /\ diags'[i] # <<>>
       /\ diags'[i][1].label = "get"
       => /\ HasError(diags'[i])
          /\ calls'[i] = <<>>
          /\ state'[i] = state[i]
          /\ remote' = remote
          /\ nextId' = nextId]_vars

\* Reached: an Update of a created record ended with the error of reading
\* its plan.
C30_Witness ==
  \E i \in insts :
    /\ hist[i].op = "Update"
    /\ diags[i] # <<>>
    /\ diags[i][1].label = "get"
    /\ state[i].present
    /\ calls[i] = <<>>


(***************************************************************************)
(* The custom format specification: two custom format resources, one       *)
(* created from a plan and one imported, against one server.  A            *)
(* specification of a custom format is kept as a record of its name, its   *)
(* implementation, its flags and its value.                                *)
(***************************************************************************)
\* CustomFormat.write: every attribute of the receiver c is set from the
\* response.
CustomFormat_write(c, customFormat) ==
  [ID |-> Int64Value(I64(customFormat.id)),
   Name |-> StringValue(customFormat.name),
   IncludeCustomFormatWhenRenaming |-> BoolValue(customFormat.includeCustomFormatWhenRenaming),
   Specifications |->
     <<"set", {[Name |-> StringValue(x.name), Implementation |-> StringValue(x.implementation),
                Negate |-> BoolValue(x.negate), Required |-> BoolValue(x.required),
                Value |-> StringValue(x.value)] : x \in customFormat.specifications}>>]

\* CustomFormat.read: the request built from the record.
CustomFormat_read(c) ==
  [id |-> Narrow32(ValueInt64(c.ID)),
   name |-> ValueString(c.Name),
   includeCustomFormatWhenRenaming |-> ValueBool(c.IncludeCustomFormatWhenRenaming),
   specifications |->
     {[name |-> ValueString(x.Name), implementation |-> ValueString(x.Implementation),
       negate |-> ValueBool(x.Negate), required |-> ValueBool(x.Required),
       value |-> ValueString(x.Value)] :
        x \in IF c.Specifications[1] = "set" THEN c.Specifications[2] ELSE {}}]

\* CustomFormatResource.Create.
CustomFormatCreate(i, plan, ok) ==
  /\ i \in insts
  /\ variant[i] = "custom_format"
  /\ client[i] = "set"
  /\ ~state[i].present
  /\ LET request == CustomFormat_read(plan)
         call == Call("create", I64(request.id), request)
     IN  IF ok /\ nextId <= MaxRemoteId
           THEN LET response == [request EXCEPT !.id = nextId]
                IN  /\ nextId' = nextId + 1
                    /\ Record(i, "Create",
                              [present |-> TRUE,
                               rec |-> CustomFormat_write(EmptyTyped(variant[i]), response)],
                              <<>>, <<call>>, plan, <<>>, FALSE,
                              [remote EXCEPT ![nextId] = [present |-> TRUE, rec |-> response]])
           ELSE /\ nextId' = nextId
                /\ Record(i, "Create", state[i],
                          <<ClientError(variant[i], "Create", "transport")>>,
                          <<Failed(call, "transport")>>, plan, <<>>, FALSE, remote)

\* A faulty Read that keeps the name of the prior record.
CustomFormatRead_merging(i, ok) ==
  /\ i \in insts
  /\ variant[i] = "custom_format"
  /\ client[i] = "set"
  /\ state[i].present
  /\ nextId' = nextId
  /\ LET key == ReadKey(variant[i], state[i].rec)
         gone == ~RemoteHas(remote, key)
         call == Call("get", key, <<>>)
     IN  IF ok /\ ~gone
           THEN Record(i, "Read",
                       [present |-> TRUE,
                        rec |-> [CustomFormat_write(state[i].rec, remote[key[2]].rec)
                                   EXCEPT !.Name = state[i].rec.Name]],
                       <<>>, <<call>>, <<>>, <<>>, gone, remote)
           ELSE Record(i, "Read", state[i],
                       <<ClientError(variant[i], "Read", IF gone THEN "notfound" ELSE "transport")>>,
                       <<Failed(call, IF gone THEN "notfound" ELSE "transport")>>,
                       <<>>, <<>>, gone, remote)

\* CustomFormatResource.Read.
CustomFormatRead(i, ok) ==
  /\ i \in insts
  /\ variant[i] = "custom_format"
  /\ client[i] = "set"
  /\ state[i].present
  /\ nextId' = nextId
  /\ LET key == ReadKey(variant[i], state[i].rec)
         gone == ~RemoteHas(remote, key)
         call == Call("get", key, <<>>)
     IN  IF ok /\ ~gone
           THEN Record(i, "Read",
                       [present |-> TRUE,
                        rec |-> CustomFormat_write(EmptyTyped(variant[i]), remote[key[2]].rec)],
                       <<>>, <<call>>, <<>>, <<>>, gone, remote)
           ELSE Record(i, "Read", state[i],
                       <<ClientError(variant[i], "Read", IF gone THEN "notfound" ELSE "transport")>>,
                       <<Failed(call, IF gone THEN "notfound" ELSE "transport")>>,
                       <<>>, <<>>, gone, remote)

\* CustomFormatResource.Update.
CustomFormatUpdate(i, plan, ok) ==
  /\ i \in insts
  /\ variant[i] = "custom_format"
  /\ client[i] = "set"
  /\ state[i].present
  /\ nextId' = nextId
  /\ LET request == CustomFormat_read(plan)
         key == Atoi(Itoa(request.id)).id
         gone == ~RemoteHas(remote, key)
         call == Call("update", key, request)
     IN  IF ok /\ ~gone
           THEN LET response == request
                IN  Record(i, "Update",
                           [present |-> TRUE,
                            rec |-> CustomFormat_write(EmptyTyped(variant[i]), response)],
                           <<>>, <<call>>, plan, <<>>, gone,
                           [remote EXCEPT ![key[2]].rec = response])
           ELSE Record(i, "Update", state[i],
                       <<ClientError(variant[i], "Update", IF gone THEN "notfound" ELSE "transport")>>,
                       <<Failed(call, IF gone THEN "notfound" ELSE "transport")>>,
                       plan, <<>>, gone, remote)

InitFormat ==
  /\ insts = {"r1", "r2"}
  /\ variant = [i \in Instances |-> "custom_format"]
  /\ state = [i \in Instances |-> NoState(variant[i])]
  /\ diags = [i \in Instances |-> <<>>]
  /\ calls = [i \in Instances |-> <<>>]
  /\ hist = [i \in Instances |-> InitHist]
  /\ ProviderReady
  /\ remote = [id \in RemoteIds |-> NoRecord]
  /\ nextId = 1
  /\ CodecIdle
  /\ Configured
  /\ ValIdle

NextFormat ==
  \/ \E i \in Instances, ok \in BOOLEAN :
       \E name \in {"a"}, include \in {Unknown, BoolValue(TRUE)} :
         CustomFormatCreate(i, [ID |-> Unknown, Name |-> StringValue(name),
                                IncludeCustomFormatWhenRenaming |-> include,
                                Specifications |-> <<"set", {}>>], ok)
  \/ \E i \in Instances, ok \in BOOLEAN : CustomFormatRead(i, ok)
  \/ \E i \in Instances, ok \in BOOLEAN :
       \E name \in {"a", "b"} :
         CustomFormatUpdate(i, [ID |-> state[i].rec.ID, Name |-> StringValue(name),
                                IncludeCustomFormatWhenRenaming |-> Unknown,
                                Specifications |->
                                  <<"set", {[Name |-> StringValue("s"),
                                             Implementation |-> StringValue("ReleaseTitleSpecification"),
                                             Negate |-> Unknown, Required |-> BoolValue(TRUE),
                                             Value |-> StringValue("x")]}>>], ok)
  \/ \E i \in Instances : ImportState(i, <<"1">>)

SpecFormat == InitFormat /\ [][NextFormat]_vars

\* C28: a Create, Read or Update without an error of one custom format
\* resource stores the record that the other resource stored from the same
\* response (the response of its last Create or Update, the remote record
\* being unchanged since), whatever the two plans and prior records were.
C28_FunctionOfResponse ==
  [][\A i \in insts, j \in insts :
       /\ i # j
       /\ OperationOf(i)
       /\ hist'[i].op \in {"Create", "Read", "Update"}
       /\ ~HasError(diags'[i])
       /\ hist'[j].stored.valid
       /\ hist'[j].stored.rec.ID = state'[i].rec.ID
       => state'[i].rec = hist'[j].stored.rec]_vars

\* Reached: a Read of an imported resource, whose prior record held the ID
\* alone, stored the record the other resource stored at its Update.
C28_Witness ==
  \E i \in insts, j \in insts :
    /\ i # j
    /\ variant[i] = "custom_format"
    /\ hist[i].op = "Read"
    /\ ~HasError(diags[i])
    /\ hist[i].prior.rec.Name = Null
    /\ hist[j].stored.valid
    /\ hist[j].stored.by = "Update"
    /\ state[i].rec = hist[j].stored.rec

====
